---- MODULE Spec2Model ----
(***************************************************************************)
(* npm-trustme: the remote account configuration reconciler.               *)
(*                                                                         *)
(* One invocation (runEnsure / runCheck) drives one browser page through   *)
(* ensureLoggedIn, ensureTrustedPublisher and ensurePublishingAccess.      *)
(* The remote console is the environment: it decides where a navigation    *)
(* ends, what a visibility probe sees, and whether a submission is stored. *)
(*                                                                         *)
(* Time is counted in ticks of 500 ms.  Date.now() is never kept as an     *)
(* absolute value: each wait loop keeps Date.now() - start (elapsed) and   *)
(* Date.now() - lastNavigation (sinceNav), both saturating.                *)
(***************************************************************************)
EXTENDS Integers, FiniteSets, Sequences, TLC

(* ---------------------------- bounds ---------------------------------- *)

\* options.timeoutMs as configured by the caller, in ticks
TimeoutTicks == 12

\* a sleep of n ticks takes n .. n + MaxJitter ticks of wall clock
MaxJitter == 1

\* invocations in one behaviour of SeqSpec (Spec has one)
MaxRuns == 2

(* ----------------------- program constants ---------------------------- *)

\* page.waitForTimeout(1000)
PollTicks == 2

\* page.waitForTimeout(500) of waitForTrustedPublisherForm
FormPollTicks == 1

\* Date.now() - lastNavigation > 5000
NavIntervalTicks == 10

\* options.timeoutMs ?? 60000 (waitForLogin, waitForTrustedPublisherForm)
DefaultLoginTimeout == 120

\* options.timeoutMs ?? 120000 (waitForManualLogin, waitForAccessReady)
DefaultAccessTimeout == 240

\* options.timeoutMs ?? 30000 (waitForTrustedPublisher)
DefaultConfirmTimeout == 60

NoTimeout == -1

(* ------------------------------ types --------------------------------- *)

PublishingAccess == {"disallow-tokens", "allow-bypass-token", "skip"}
LoginModes == {"auto", "browser"}
CredKinds == {"none", "password", "password+otp"}
Urls == {"blank", "login", "profile", "access", "other"}
Tokens == {"slug", "workflow", "environment"}

Min(a, b) == IF a < b THEN a ELSE b

VARIABLES
    cfg,        \* target, credentials and EnsureOptions of the invocations
    url,        \* page.url(), by kind of address
    authed,     \* the browser holds a valid npm session
    tpStored,   \* the registry holds the target's trusted publisher
    pageTP,     \* the loaded page lists the target's trusted publisher
    accStored,  \* the registry's publishing access policy
    run,        \* the invocation in progress: kind, dryRun
    pc,         \* position of the invocation
    elapsed,    \* Date.now() - start of the wait loop in progress
    sinceNav,   \* Date.now() - lastNavigation of waitForAccessReady
    obs,        \* what the last step observed on the page
    res,        \* results of the invocation: trustedPublisher, publishingAccess, error
    hist,       \* what the invocation has done to the page so far
    prev,       \* results of the previous invocation
    runs,       \* invocations started so far
    chain,      \* resolveCredentials: options, position in the provider list, result so far
    detect,     \* resolveChromeProfileAuto: profiles, candidates, result
    capture,    \* buildTrustedPublisherTemplate: inputs, position, field map, template
    conf,       \* the configuration file and the writeConfig calls in progress
    cli,        \* runCheck / runEnsure of the command line: options, position, session, exit code
    norm,       \* the workflow of a target: the input, the path taken, the result
    token,      \* createAccessToken: options, requests sent, polls, result
    gatePass    \* isTwoFactorGate: the signals shown, the probes made, the result

\* the state of one browser invocation and of the registry it works on
onPage == <<cfg, url, authed, tpStored, pageTP, accStored, run, pc, elapsed,
            sinceNav, obs, res, hist, prev, runs>>

\* the state of the operations that run without a page
offPage == <<chain, detect, capture, conf, cli, norm, token, gatePass>>

\* what resolveCredentials leaves alone
exceptChain == <<onPage, detect, capture, conf, cli, norm, token, gatePass>>

\* what resolveChromeProfileAuto leaves alone
exceptDetect == <<onPage, chain, capture, conf, cli, norm, token, gatePass>>

\* what buildTrustedPublisherTemplate leaves alone
exceptCapture == <<onPage, chain, detect, conf, cli, norm, token, gatePass>>

\* what writeConfig leaves alone
exceptConf == <<onPage, chain, detect, capture, cli, norm, token, gatePass>>

\* what runCheck and runEnsure of the command line leave alone
exceptCli == <<onPage, chain, detect, capture, conf, norm, token, gatePass>>

\* what the resolution of a workflow leaves alone
exceptNorm == <<onPage, chain, detect, capture, conf, cli, token, gatePass>>

\* what createAccessToken leaves alone
exceptToken == <<onPage, chain, detect, capture, conf, cli, norm, gatePass>>

\* what isTwoFactorGate leaves alone
exceptGate == <<onPage, chain, detect, capture, conf, cli, norm, token>>

vars == <<onPage, offPage>>

remote == <<authed, tpStored, pageTP, accStored>>

(* --------------------- helpers of trustedPublisher.ts ----------------- *)

\* page.url().includes('/login')
UrlIsLogin(u) == u = "login"

\* isAccessUrl: currentUrl.includes(`/package/${packageName}/access`)
isAccessUrl(u) == u = "access"

\* a manual wait that forgets the headless browser
ManualAllowedHeadless(o) == o.loginMode = "browser"

\* options.loginMode === 'browser' && !options.headless
ManualAllowed(o) == o.loginMode = "browser" /\ ~o.headless

\* options.timeoutMs ?? default
TimeoutOf(o, default) == IF o.timeoutMs = NoTimeout THEN default ELSE o.timeoutMs

\* a wait loop written as while (true)
ExpiredNever(e, timeout) == FALSE

\* the negation of the loop condition Date.now() - start < timeout
Expired(e, timeout) == ~(e < timeout)

\* Date.now() - start after a further d ticks, saturating at the timeout
Later(e, d, timeout) == Min(e + d, timeout)

\* Date.now() - lastNavigation after a further d ticks, saturating above the interval
LaterNav(sn, d) == Min(sn + d, NavIntervalTicks + 1)

\* wall-clock durations of a sleep of n ticks
SleepTimes(n) == n .. (n + MaxJitter)

\* a capture that drops the file's path
captureScreenshotNoPath(dir) == "null"

\* captureScreenshot: null without a directory, else the file's path
captureScreenshot(dir) == IF dir = "none" THEN "null" ELSE "path"

\* const hint = screenshot ? ` (screenshot: ${screenshot})` : ''
HasHint(screenshot) == screenshot # "null"

\* the texts of the target that hasTrustedPublisher looks for
TargetTokens(t) ==
    {"slug", "workflow"} \cup (IF t.hasEnv THEN {"environment"} ELSE {})

\* hasTrustedPublisher: slugVisible && workflowVisible && envVisible
hasTrustedPublisher(text, t) ==
    /\ "slug" \in text
    /\ "workflow" \in text
    /\ (IF t.hasEnv THEN "environment" \in text ELSE TRUE)

\* the two labels exchanged
accessLabelSwapped(access) ==
    IF access = "disallow-tokens" THEN "allow-bypass-token" ELSE "disallow-tokens"

\* accessLabel: the radio that stands for the desired policy
accessLabel(access) ==
    IF access = "disallow-tokens" THEN "disallow-tokens" ELSE "allow-bypass-token"

\* checkLoggedIn after its navigation: not on /login and no login markers visible
checkLoggedIn(u, loginMarkers) == ~UrlIsLogin(u) /\ ~loginMarkers

\* a re-navigation without the lastNavigation test
ShouldNavigateUnlimited(u, sn) == ~isAccessUrl(u)

\* waitForAccessReady: !isAccessUrl(page.url(), packageName) && Date.now() - lastNavigation > 5000
ShouldNavigate(u, sn) == ~isAccessUrl(u) /\ sn > NavIntervalTicks

(* --------------------------- the remote page -------------------------- *)

\* where page.goto(dest) ends: an unauthenticated session is sent to /login
\* (or, for the profile page, shown with login markers); an authenticated one
\* reaches dest, or for the access page some interstitial address
GotoOutcomes(dest, isAuthed) ==
    IF isAuthed
    THEN (IF dest = "access" THEN {"access", "other"} ELSE {dest})
    ELSE (IF dest = "profile" THEN {"login", "profile"} ELSE {"login"})

\* what page.getByText can see: the page's own text plus the listed publisher
VisibleText ==
    IF url = "access"
    THEN cfg.baseText \cup (IF pageTP THEN TargetTokens(cfg.target) ELSE {})
    ELSE {}

(* ------------------------------ records ------------------------------- *)

NoRes == [tp |-> "none", acc |-> "none", err |-> "none", errShot |-> FALSE]

\* did: page actions of the operation in progress (its navigations, select, fill,
\* setup, radio, save, credentials, otp); navGap: time since the last navigation
\* to the access address; loopNavs, gapAtNav: re-navigations of the current
\* waitForAccessReady and the navGap at which the last one was issued; spin:
\* wait-loop iterations since time last passed; radioObs: the last radio.isChecked() read;
\* confirmed: hasTrustedPublisher held after the submission; ready: what the
\* operation in progress saw when waitForAccessReady returned (clear: not on the
\* login address and no challenge gate; blocked otherwise); request: the
\* address of the fetch that carried the bearer token
NoHist == [did |-> {}, tpSubmits |-> 0, accSubmits |-> 0, requests |-> 0, shots |-> 0,
           navGap |-> NavIntervalTicks + 1, loopNavs |-> 0,
           gapAtNav |-> NavIntervalTicks + 1, spin |-> 0,
           radioObs |-> "none", confirmed |-> FALSE, sawMissing |-> FALSE,
           ready |-> "none", request |-> <<>>,
           response |-> [status |-> 0, body |-> 0],
           message |-> [status |-> 0, snippet |-> 0]]

NoPrev == [kind |-> "none", dryRun |-> FALSE, tp |-> "none", acc |-> "none"]

\* the error thrown by a step that called captureScreenshot `attempts` times
Thrown(kind, attempts) ==
    [res EXCEPT !.err = kind,
                !.errShot = attempts > 0 /\ HasHint(captureScreenshot(cfg.screenshotDir))]

Shots(h, attempts) ==
    [h EXCEPT !.shots = @ + (IF captureScreenshot(cfg.screenshotDir) = "null"
                             THEN 0 ELSE attempts)]

\* d > 0 ticks pass inside waitForAccessReady
Aged(h, d) == [h EXCEPT !.navGap = LaterNav(@, d), !.spin = 0]

\* a wait loop is left: its local variables go out of scope
Left(h) ==
    [h EXCEPT !.navGap = NavIntervalTicks + 1, !.loopNavs = 0,
              !.gapAtNav = NavIntervalTicks + 1, !.spin = 0]

\* page.goto(accessUrl(...)) issued by an ensure operation before its wait
Entered(h, what) ==
    [h EXCEPT !.did = {what}, !.navGap = 0, !.loopNavs = 0,
              !.gapAtNav = NavIntervalTicks + 1, !.spin = 0, !.ready = "none"]

\* page.goto(accessUrl(...)) issued by waitForAccessReady
Renavigated(h, what) ==
    [h EXCEPT !.did = @ \cup {what}, !.gapAtNav = h.navGap, !.navGap = 0,
              !.loopNavs = @ + 1, !.spin = @ + 1]

Did(h, what) == [h EXCEPT !.did = @ \cup what]

(* ------------------------- resolveCredentials ------------------------- *)

\* the fields of PartialCredentials
Fields == {"username", "password", "otp"}

\* undefined, or the empty string: what `!value` holds of
Empty == <<>>

\* the value a provider holds for an attribute of its entry
Val(provider, attr) == <<provider, attr>>

\* PartialCredentials = {}
NoCreds == [f \in Fields |-> Empty]

\* the providers array of resolveCredentials; promptProvider only when interactive
ProviderList(interactive) ==
    <<"direct", "1password", "bitwarden", "lastpass", "keepassxc">>
        \o (IF interactive THEN <<"prompt">> ELSE <<>>)

\* CredentialOptions: the fields given directly and the providers configured
CredOptions ==
    [direct : SUBSET Fields, op : BOOLEAN, bw : BOOLEAN, lpass : BOOLEAN,
     kpx : BOOLEAN, interactive : BOOLEAN, allowMissing : BOOLEAN]

\* a merge that keeps only what the last provider returned
mergeCredentialsLast(current, next) == next

\* mergeCredentials: current.field || next.field
mergeCredentials(current, next) ==
    [f \in Fields |-> IF current[f] # Empty THEN current[f] ELSE next[f]]

\* what provider.resolve did: the record it returned or that it threw, the
\* attributes it read from its store, whether it caught a failure of its CLI
Returned(out, reads, swallowed) ==
    [out |-> out, threw |-> FALSE, reads |-> reads, swallowed |-> swallowed]

Threw(reads) == [out |-> NoCreds, threw |-> TRUE, reads |-> reads, swallowed |-> FALSE]

\* directProvider.resolve
directResolve(o) ==
    {Returned([f \in Fields |-> IF f \in o.direct THEN Val("direct", f) ELSE Empty],
              {}, FALSE)}

\* onePasswordProvider.resolve: one `op read` per field still missing
onePasswordResolve(o, current) ==
    LET need == {f \in Fields : current[f] = Empty} IN
    IF ~o.op \/ need = {}
    THEN {Returned(NoCreds, {}, FALSE)}
    ELSE {IF \E f \in need : r[f] = "fail"
          THEN Threw(need)
          ELSE Returned([f \in Fields |->
                            IF f \in need /\ r[f] = "value"
                            THEN Val("1password", f) ELSE Empty], need, FALSE)
          : r \in [need -> {"fail", "empty", "value"}]}

\* bitwardenProvider.resolve and lastPassProvider.resolve: readItem on the whole
\* item, then readTotp / readField when no otp is held
itemResolve(name, configured, current) ==
    IF ~configured
    THEN {Returned(NoCreds, {}, FALSE)}
    ELSE {Threw({"username", "password"})}
         \cup
         {Returned([f \in Fields |->
                       IF current[f] # Empty THEN Empty
                       ELSE IF f = "otp"
                       THEN (IF totp = "value" THEN Val(name, f) ELSE Empty)
                       ELSE (IF f \in has THEN Val(name, f) ELSE Empty)],
                   {"username", "password"}
                      \cup (IF totp = "skipped" THEN {} ELSE {"otp"}),
                   totp = "fail")
          : has \in SUBSET {"username", "password"},
            totp \in (IF current["otp"] = Empty
                      THEN {"fail", "empty", "value"} ELSE {"skipped"})}

\* the non-empty lines of `keepassxc-cli show`, in the order of the attributes
kpxLines(has) ==
    LET order == <<"username", "password", "otp">> IN
    [k \in 1 .. Cardinality(has) |->
        Val("keepassxc",
            CHOOSE a \in has :
               Cardinality({b \in has : \E m, n \in 1 .. 3 :
                               order[m] = b /\ order[n] = a /\ m < n}) = k - 1)]

\* keepassxcProvider.resolve
keepassxcResolve(o, current) ==
    LET wantsOtp == current["otp"] = Empty
        asked == {"username", "password"} \cup (IF wantsOtp THEN {"otp"} ELSE {}) IN
    IF ~o.kpx
    THEN {Returned(NoCreds, {}, FALSE)}
    ELSE {Threw(asked)}
         \cup
         {LET lines == kpxLines(has) IN
          Returned([f \in Fields |->
                       CASE f = "username" ->
                              IF current[f] = Empty /\ Len(lines) >= 1
                              THEN lines[1] ELSE Empty
                         [] f = "password" ->
                              IF current[f] = Empty /\ Len(lines) >= 2
                              THEN lines[2] ELSE Empty
                         [] OTHER ->
                              IF wantsOtp /\ Len(lines) >= 3
                              THEN lines[3] ELSE Empty],
                   asked, FALSE)
          : has \in SUBSET asked}

\* promptProvider.resolve: every missing field is asked for; a cancelled prompt returns {}
promptResolve(current) ==
    IF \A f \in Fields : current[f] # Empty
    THEN {Returned(NoCreds, {}, FALSE)}
    ELSE {Returned(NoCreds, {}, FALSE),
          Returned([f \in Fields |->
                       IF current[f] = Empty THEN Val("prompt", f) ELSE current[f]],
                   {}, FALSE)}

\* provider.resolve(options, current, logger)
Resolve(provider, o, current) ==
    CASE provider = "direct" -> directResolve(o)
      [] provider = "1password" -> onePasswordResolve(o, current)
      [] provider = "bitwarden" -> itemResolve("bitwarden", o.bw, current)
      [] provider = "lastpass" -> itemResolve("lastpass", o.lpass, current)
      [] provider = "keepassxc" -> keepassxcResolve(o, current)
      [] OTHER -> promptResolve(current)

\* suppliers: the non-empty fields the providers returned, by position; lookups:
\* the providers that read a password while one was held; swallowed: the
\* providers that caught a failure of their CLI
NoChain ==
    [o |-> [direct |-> {}, op |-> FALSE, bw |-> FALSE, lpass |-> FALSE, kpx |-> FALSE,
            interactive |-> FALSE, allowMissing |-> FALSE],
     i |-> 1, current |-> NoCreds, suppliers |-> {}, lookups |-> {}, swallowed |-> {},
     status |-> "idle"]

(* ----------------------- resolveChromeProfileAuto ---------------------- *)

\* profiles enumerated under the user data directory, named 1 .. n
MaxProfiles == 2

\* no profile: null
NoProfile == 0

\* the cookies one getCookies call returns, by kind of cookie: name matching
\* AUTH_PATTERNS and httpOnly, name matching only, httpOnly only, neither
Jars ==
    {[authHttp |-> 0, auth |-> 0, http |-> 0, plain |-> 0],
     [authHttp |-> 0, auth |-> 2, http |-> 1, plain |-> 2],
     [authHttp |-> 0, auth |-> 0, http |-> 3, plain |-> 37],
     [authHttp |-> 0, auth |-> 0, http |-> 0, plain |-> 60],
     [authHttp |-> 0, auth |-> 2, http |-> 0, plain |-> 37],
     [authHttp |-> 1, auth |-> 0, http |-> 0, plain |-> 0]}

EmptyJar == [authHttp |-> 0, auth |-> 0, http |-> 0, plain |-> 0]

\* what reader.getCookies gives for one URL: the cookies found, or an error
CookieReads ==
    {[ok |-> TRUE, found |-> jar] : jar \in Jars} \cup {[ok |-> FALSE, found |-> EmptyJar]}

\* cookies.concat(found)
Concat(a, b) ==
    [authHttp |-> a.authHttp + b.authHttp, auth |-> a.auth + b.auth,
     http |-> a.http + b.http, plain |-> a.plain + b.plain]

\* cookies.length
CookieCount(jar) == jar.authHttp + jar.auth + jar.http + jar.plain

\* scoreCookies
scoreCookies(jar) ==
    [authMatches |-> jar.authHttp + jar.auth, httpOnlyCount |-> jar.authHttp + jar.http]

\* a score without the cap on the cookie count
ScoreUncapped(authMatches, httpOnlyCount, cookieCount) ==
    authMatches * 10 + httpOnlyCount * 3 + cookieCount

\* authMatches * 10 + httpOnlyCount * 3 + Math.min(cookieCount, 50)
Score(authMatches, httpOnlyCount, cookieCount) ==
    authMatches * 10 + httpOnlyCount * 3 + Min(cookieCount, 50)

\* the CookieCandidate pushed for a profile
Candidate(profile, jar) ==
    LET counts == scoreCookies(jar) IN
    [profile |-> profile, cookieCount |-> CookieCount(jar),
     authMatches |-> counts.authMatches, httpOnlyCount |-> counts.httpOnlyCount,
     score |-> Score(counts.authMatches, counts.httpOnlyCount, CookieCount(jar))]

\* a comparator that sorts ascending
SortsBeforeAscending(a, b) ==
    IF b.score # a.score THEN a.score < b.score
    ELSE IF b.authMatches # a.authMatches THEN a.authMatches < b.authMatches
    ELSE IF b.httpOnlyCount # a.httpOnlyCount THEN a.httpOnlyCount < b.httpOnlyCount
    ELSE a.cookieCount < b.cookieCount

\* the comparator of candidates.sort is negative for (a, b): a sorts before b
SortsBefore(a, b) ==
    IF b.score # a.score THEN b.score - a.score < 0
    ELSE IF b.authMatches # a.authMatches THEN b.authMatches - a.authMatches < 0
    ELSE IF b.httpOnlyCount # a.httpOnlyCount THEN b.httpOnlyCount - a.httpOnlyCount < 0
    ELSE b.cookieCount - a.cookieCount < 0

\* candidates[0] after the (stable) sort: the first candidate that none sorts before
TopCandidate(candidates) ==
    candidates[CHOOSE k \in 1 .. Len(candidates) :
                 /\ \A j \in 1 .. Len(candidates) : ~SortsBefore(candidates[j], candidates[k])
                 /\ \A j \in 1 .. (k - 1) :
                      \E m \in 1 .. Len(candidates) : SortsBefore(candidates[m], candidates[j])]

\* the Local State file: absent, not JSON, without profile.last_used, or naming a profile
LocalStates ==
    {[kind |-> k, name |-> NoProfile] : k \in {"absent", "invalid", "no-record"}}
        \cup {[kind |-> "named", name |-> n] : n \in 1 .. (MaxProfiles + 1)}

\* readLastActiveProfile
readLastActiveProfile(file) == IF file.kind = "named" THEN file.name ELSE NoProfile

\* a fallback that trusts the record
LastActiveUsableAny(lastActive, n) == lastActive # NoProfile

\* lastActive && profiles.includes(lastActive)
LastActiveUsable(lastActive, n) == lastActive # NoProfile /\ lastActive \in 1 .. n

NoDetect ==
    [n |-> 0, reader |-> FALSE, i |-> 1, candidates |-> <<>>, lastActive |-> NoProfile,
     profile |-> NoProfile, reason |-> "none", status |-> "idle"]

(* -------------------- buildTrustedPublisherTemplate ------------------- *)

\* inputs of the captured form
MaxInputs == 4

\* the logical fields, in the order mapTrustedPublisherFields tries them
LogicalFields == <<"owner", "repo", "workflow", "environment", "maintainer", "publisher">>

RequiredFields == {"owner", "repo", "workflow"}

\* the alternatives of each field's pattern
Pattern(field) ==
    CASE field = "owner" -> {"owner", "organization", "org", "user"}
      [] field = "repo" -> {"repo", "repository", "project"}
      [] field = "workflow" -> {"workflow", "file_path", "workflow filename"}
      [] field = "environment" -> {"environment"}
      [] field = "maintainer" -> {"maintainer"}
      [] field = "publisher" -> {"publisher", "provider"}

\* regex.test(haystack), the haystack given as the pattern alternatives that
\* occur in it
Matches(field, haystack) == Pattern(field) \cap haystack # {}

\* inputs whose lowercased name + label + placeholder holds pattern
\* alternatives: their name and the alternatives occurring in the text
MatchingInputs ==
    {[name |-> "oidc_repositoryOwner",
      haystack |-> {"repo", "repository", "owner", "org", "organization"}],
     [name |-> "oidc_repositoryName", haystack |-> {"repo", "repository"}],
     [name |-> "oidc_workflowName", haystack |-> {"workflow", "workflow filename"}],
     [name |-> "oidc_githubEnvironmentName", haystack |-> {"environment"}],
     [name |-> "maintainer", haystack |-> {"maintainer"}],
     [name |-> "provider", haystack |-> {"provider"}]}

\* names of inputs whose text holds no pattern alternative
PlainNames == {"csrftoken", "confirm"}

InputNames == {input.name : input \in MatchingInputs} \cup PlainNames

\* named inputs of the form: what their text matches, the value they carry,
\* their type
FormInputs ==
    {[name |-> input.name, haystack |-> input.haystack, value |-> "v", type |-> "text"] :
        input \in MatchingInputs}
    \cup {[name |-> n, haystack |-> {}, value |-> "v", type |-> "text"] : n \in PlainNames}
    \cup {[name |-> n, haystack |-> {}, value |-> "", type |-> "text"] : n \in PlainNames}
    \cup {[name |-> n, haystack |-> {}, value |-> "w", type |-> "hidden"] : n \in PlainNames}
    \cup {[name |-> n, haystack |-> {}, value |-> "v", type |-> "checkbox"] : n \in PlainNames}

\* nothing mapped: every key of the map is unset
NoMap == [f \in {LogicalFields[k] : k \in 1 .. Len(LogicalFields)} |-> ""]

\* no field claimed by any input
NoFrom == [f \in DOMAIN NoMap |-> 0]

\* a mapping that takes a field even when it is already mapped
ClaimedFieldLast(map, haystack) ==
    IF \E k \in 1 .. Len(LogicalFields) : Matches(LogicalFields[k], haystack)
    THEN CHOOSE k \in 1 .. Len(LogicalFields) :
            /\ Matches(LogicalFields[k], haystack)
            /\ \A j \in 1 .. (k - 1) : ~Matches(LogicalFields[j], haystack)
    ELSE 0

\* the first `if (!map.f && pattern.test(haystack))` that holds for an input: 0 if none
ClaimedField(map, haystack) ==
    IF \E k \in 1 .. Len(LogicalFields) :
          map[LogicalFields[k]] = "" /\ Matches(LogicalFields[k], haystack)
    THEN CHOOSE k \in 1 .. Len(LogicalFields) :
            /\ map[LogicalFields[k]] = "" /\ Matches(LogicalFields[k], haystack)
            /\ \A j \in 1 .. (k - 1) :
                 ~(map[LogicalFields[j]] = "" /\ Matches(LogicalFields[j], haystack))
    ELSE 0

\* a check that asks for the owner only
MissingFieldsOwnerOnly(map) == {f \in {"owner"} : map[f] = ""}

\* the keys of `missing` at the end of mapTrustedPublisherFields
MissingFields(map) == {f \in RequiredFields : map[f] = ""}

\* static fields that keep checkboxes
StaticFieldsWithCheckboxes(inputs, map) ==
    LET Kept(k) == /\ \A f \in DOMAIN map : map[f] # inputs[k].name
                   /\ inputs[k].value # ""
        Last(n) == CHOOSE k \in 1 .. Len(inputs) :
                      /\ inputs[k].name = n /\ Kept(k)
                      /\ \A j \in (k + 1) .. Len(inputs) : ~(inputs[j].name = n /\ Kept(j))
    IN  [n \in InputNames |->
            IF \E k \in 1 .. Len(inputs) : inputs[k].name = n /\ Kept(k)
            THEN inputs[Last(n)].value ELSE ""]

\* staticFields of buildTrustedPublisherTemplate: name -> value, "" when not
\* set; a later input of the same name overwrites an earlier one
StaticFields(inputs, map) ==
    LET Kept(k) == /\ \A f \in DOMAIN map : map[f] # inputs[k].name
                   /\ inputs[k].value # ""
                   /\ inputs[k].type # "checkbox"
        Last(n) == CHOOSE k \in 1 .. Len(inputs) :
                      /\ inputs[k].name = n /\ Kept(k)
                      /\ \A j \in (k + 1) .. Len(inputs) : ~(inputs[j].name = n /\ Kept(j))
    IN  [n \in InputNames |->
            IF \E k \in 1 .. Len(inputs) : inputs[k].name = n /\ Kept(k)
            THEN inputs[Last(n)].value ELSE ""]

NoTemplate == [made |-> FALSE, fieldMap |-> NoMap, staticFields |-> [n \in InputNames |-> ""]]

NoCapture ==
    [inputs |-> <<>>, i |-> 1, map |-> NoMap, from |-> NoFrom, status |-> "idle",
     missing |-> {}, template |-> NoTemplate]

(* --------------------------- writeConfig ------------------------------ *)

\* processes calling writeConfig
MaxWriters == 2

\* keys of TrustmeConfig
ConfigKeys == {"chromeCdpUrl", "chromeProfile", "trustedPublisherTemplate"}

\* {}: no key has a value
EmptyConfig == [k \in ConfigKeys |-> ""]

\* an overwrite that does not merge
mergeConfigReplacing(current, update) == update

\* { ...current, ...update }
mergeConfig(current, update) ==
    [k \in ConfigKeys |-> IF update[k] # "" THEN update[k] ELSE current[k]]

\* readConfig: what the file holds, {} when it is missing or does not parse
readConfig(file) == IF file.whole THEN file.content ELSE EmptyConfig

\* the value writer w gives to the keys it updates
WriterValue(w) == IF w = 1 THEN "first" ELSE IF w = 2 THEN "second" ELSE "third"

\* the updates writer w may pass: some keys, at least one
UpdatesOf(w) ==
    {[k \in ConfigKeys |-> IF k \in keys THEN WriterValue(w) ELSE ""] :
        keys \in SUBSET ConfigKeys \ {{}}}

IdleWriter == [pc |-> "idle", update |-> EmptyConfig, merged |-> EmptyConfig]

NoConf ==
    [file |-> [whole |-> TRUE, content |-> EmptyConfig],
     initial |-> EmptyConfig,
     writers |-> [w \in 1 .. MaxWriters |-> IdleWriter],
     overlapped |-> FALSE]

(* ----------------------- the commands check and ensure ---------------- *)

\* targets of one run of the install wizard
MaxTargets == 2

\* launchBrowser: attached to a running browser over its remote-debug
\* endpoint, a persistent context on a Chrome profile, or a fresh browser
LaunchModes == {"cdp", "persistent", "fresh"}

\* what the operator passes and what the run meets: the command, the required
\* target fields still missing after inference, --yes, a terminal, the answer
\* to the prompt, --dry-run, --storage, the way the browser is obtained
CliOptions ==
    [cmd : {"check", "ensure"},
     missing : {{}, {"owner"}, {"repo"}, {"workflow"}, RequiredFields},
     yes : BOOLEAN, tty : BOOLEAN, answer : {"y", "n"},
     dryRun : BOOLEAN, storage : BOOLEAN, mode : LaunchModes]

\* the install wizard at the point where it has its targets: it runs on a
\* terminal, asks its own questions and takes no --dry-run
InstallOptions ==
    [cmd : {"install"}, missing : {{}}, yes : {FALSE}, tty : {TRUE}, answer : {"y"},
     dryRun : {FALSE}, storage : BOOLEAN, mode : LaunchModes]

\* the package on the registry site: the publisher is listed or not; the
\* target's publishing access is unmanaged, as stored, or different; the
\* registry metadata marks the latest version as trusted publishing or not
CliWorlds ==
    [tpPresent : BOOLEAN, access : {"skip", "matches", "differs"},
     registryTp : {"unknown", "yes", "no"}]

\* the packages of the wizard's targets; the wizard does not read the registry metadata
WizardWorlds == {w \in CliWorlds : w.registryTp = "unknown"}

\* a target check that asks for the owner only
TargetMissingOwnerOnly(missing) == "owner" \in missing

\* missing.length in resolveTarget
TargetMissing(missing) == missing # {}

\* a confirmation that always proceeds
confirmEnsureAlways(o) == TRUE

\* confirmEnsure: --yes, else no terminal, else the answer
confirmEnsure(o) == o.yes \/ (o.tty /\ o.answer = "y")

\* the dryRun option as the operator passed it
DryRunPassed(o) == o.dryRun

\* the dryRun option the steps get: true in runCheck, options.dryRun in runEnsure
DryRunGiven(o) == IF o.cmd = "check" THEN TRUE ELSE o.dryRun

\* process.exitCode at the end of the try block of runCheck
CheckExitCode(status, accessStatus, registryOk) ==
    IF status = "exists" /\ accessStatus = "ok" /\ registryOk THEN 0 ELSE 2

\* process.exitCode at the end of the try block of runEnsure: 0 unless set
EnsureExitCode(status, accessStatus) ==
    IF status = "dry-run" \/ accessStatus = "dry-run" THEN 2 ELSE 0

\* a teardown that closes every browser it has a handle of
ClosesBrowserAlways(handle, owns) == handle

\* closeBrowser: session.browser && session.ownsBrowser !== false
ClosesBrowser(handle, owns) == handle /\ owns

\* a wizard that reports the failure of its pre-check and goes on to the next question
AfterFailureGoesOn(c) ==
    IF c.o.cmd = "install" /\ c.stage = "precheck" THEN "w-proceed" ELSE "finally"

\* where a command goes when login or a step threw: runCheck and runEnsure
\* have no catch clause, and every catch clause of runInstall returns or
\* rethrows; the finally block is next
AfterFailure(c) == "finally"

\* o, world: options and the package of the target at hand; others: the
\* packages of the wizard's targets; stage, target: position of runWizardChecks;
\* browser: the browser process (none before a launch, running, closed);
\* handle, owns: session.browser is set, session.ownsBrowser; failed: the call
\* of the try block that threw
NoCli ==
    [o |-> [cmd |-> "check", missing |-> {}, yes |-> FALSE, tty |-> FALSE, answer |-> "n",
            dryRun |-> FALSE, storage |-> FALSE, mode |-> "fresh"],
     world |-> [tpPresent |-> FALSE, access |-> "skip", registryTp |-> "unknown"],
     others |-> <<>>, stage |-> "none", target |-> 1,
     pc |-> "idle", session |-> "none", browser |-> "none", handle |-> FALSE,
     owns |-> FALSE, launches |-> 0, saved |-> FALSE,
     calls |-> <<>>, mutated |-> FALSE, threw |-> "none", failed |-> "none",
     status |-> "none", accessStatus |-> "none", exitCode |-> 0]

(* ------------------------ the workflow of a target -------------------- *)

\* a workflow input is a string, held as the sequence of its parts: the
\* separator, a blank, and names without either
MaxParts == 5

WorkflowParts == {"/", " ", ".github", "workflows", "release.yml"}

WorkflowInputs == UNION {[1 .. n -> WorkflowParts] : n \in 1 .. MaxParts}

\* value.includes('/')
includesSlash(value) == \E i \in 1 .. Len(value) : value[i] = "/"

RECURSIVE StripTrailing(_, _)
\* value without the parts c at its end
StripTrailing(value, c) ==
    IF value # <<>> /\ value[Len(value)] = c
    THEN StripTrailing(SubSeq(value, 1, Len(value) - 1), c)
    ELSE value

RECURSIVE StripLeading(_, _)
\* value without the parts c at its start
StripLeading(value, c) ==
    IF value # <<>> /\ value[1] = c THEN StripLeading(Tail(value), c) ELSE value

\* String.prototype.trim
trim(value) == StripLeading(StripTrailing(value, " "), " ")

\* path.basename: trailing separators are dropped, then what follows the last
\* separator is returned; the empty string for a path of separators only
basename(value) ==
    LET p == StripTrailing(value, "/")
        slashes == {i \in 1 .. Len(p) : p[i] = "/"}
        last == IF slashes = {} THEN 0 ELSE CHOOSE i \in slashes : \A j \in slashes : j <= i
    IN  SubSeq(p, last + 1, Len(p))

\* the end of resolveTarget: the basename of a workflow that has a separator
ResolvedWorkflow(workflow) ==
    IF includesSlash(workflow) THEN basename(workflow) ELSE workflow

NoNorm == [via |-> "none", input |-> <<>>, pc |-> "idle", workflow |-> <<>>]

(* --------------------------- createAccessToken ------------------------ *)

\* options.timeoutMs of the explored calls, in poll ticks
MaxTokenTimeout == 4

\* options.pollIntervalMs, and the time a fetch of the done address takes
PollIntervals == {1, 2}
FetchTimes == {0, 1}

\* TokenCreateOptions: a one-time code is supplied or not, timeoutMs, pollIntervalMs
TokenOptions ==
    [otp : BOOLEAN, timeout : 0 .. MaxTokenTimeout, interval : PollIntervals]

\* response.status of a create request, and whether its body is a JSON object
CreateStatuses == {201, 401, 403}

\* the addresses a 401 body names
Challenges == {"none", "auth", "done", "both"}

\* a challenge test that asks for the auth address only
extractWebAuthUrlsAuthOnly(challenge) == challenge \in {"auth", "both"}

\* extractWebAuthUrls: non-null only with both authUrl and doneUrl
extractWebAuthUrls(challenge) == challenge = "both"

\* Date.now() - start < timeout in pollForOtp
PollContinues(waited, timeout) == waited < timeout

\* handleTokenResponse: the token of an ok response with a JSON object, else an error
handleTokenResponse(status, json) ==
    IF status >= 200 /\ status < 300
    THEN IF json THEN "token" ELSE "invalid-json"
    ELSE "http-error"

\* o: the options; creates: the create requests sent, each with the origin of
\* its npm-otp header; first: the answer to the first one; polls: fetches of
\* the done address; pollAt: Date.now() - start when the last one was issued;
\* code: a code was parsed from a poll
NoToken ==
    [o |-> [otp |-> FALSE, timeout |-> 0, interval |-> 1],
     pc |-> "idle", creates |-> <<>>, first |-> [status |-> 0, challenge |-> "none"],
     polls |-> 0, pollAt |-> 0, elapsed |-> 0, code |-> FALSE, result |-> "none"]

(* ----------------------------- isTwoFactorGate ------------------------ *)

\* the locators of isTwoFactorGate: heading, button, link and four inputs
GateSignals == 7

\* the timeout option that isTwoFactorGate passes to locator.isVisible
GateProbeTimeout == 800

\* visible: the signals the page shows; next: the locator to probe; probes: the
\* timeout option of each isVisible call of the pass
NoGate == [visible |-> {}, next |-> 1, probes |-> <<>>, pc |-> "idle", result |-> FALSE]

(* ------------------------------- Init --------------------------------- *)

\* The invocations explored pass --timeout (options.timeoutMs = TimeoutTicks), so
\* every wait loop runs on the same, short timeout; the defaults of TimeoutOf
\* apply to an invocation without the flag.
Configs ==
    [target : [publishingAccess : PublishingAccess, hasEnv : BOOLEAN],
     baseText : {{"slug", "workflow"}},
     loginMode : LoginModes,
     headless : BOOLEAN,
     screenshotDir : {"none", "dir"},
     creds : CredKinds,
     timeoutMs : {TimeoutTicks},
     invocations : 1 .. MaxRuns]

\* The state before the first invocation.  A field that no step reads in a
\* configuration is given one value there: the credentials of a session that is
\* logged in already (none in login mode browser; in login mode auto, where
\* StartRun refuses to go on without them, a password), and the stored policy
\* of a target whose policy is left unmanaged.  The page text of the package names the repository and the
\* workflow (baseText), so a target without an environment is found present and
\* a target with one is found missing.
Start ==
    /\ cfg \in Configs
    /\ url = "blank"
    /\ authed \in BOOLEAN
    /\ authed => cfg.creds = (IF cfg.loginMode = "browser" THEN "none" ELSE "password")
    /\ tpStored = FALSE
    /\ pageTP = FALSE
    /\ accStored \in {"disallow-tokens", "allow-bypass-token"}
    /\ cfg.target.publishingAccess = "skip" => accStored = "allow-bypass-token"
    /\ run = [kind |-> "none", dryRun |-> FALSE]
    /\ pc = "idle"
    /\ elapsed = 0
    /\ sinceNav = NavIntervalTicks + 1
    /\ obs = "none"
    /\ res = NoRes
    /\ hist = NoHist
    /\ prev = NoPrev
    /\ runs = 0
    /\ chain = NoChain
    /\ detect = NoDetect
    /\ capture = NoCapture
    /\ conf = NoConf
    /\ cli = NoCli
    /\ norm = NoNorm
    /\ token = NoToken
    /\ gatePass = NoGate

\* one invocation, under every configuration
Init == Start /\ cfg.invocations = 1

\* a sequence of invocations on one target, attended (login mode browser, a
\* visible window), starting from the default, non-strict policy
SeqInit ==
    /\ Start
    /\ cfg.invocations = MaxRuns
    /\ cfg.loginMode = "browser"
    /\ ~cfg.headless
    /\ cfg.screenshotDir = "none"
    /\ cfg.creds \in {"none", "password+otp"}
    /\ accStored = "allow-bypass-token"

(* ------------------- runEnsure / runCheck: the invocation ------------- *)

\* runEnsure(options) and runCheck(options) up to the first await of the try
\* block: resolveCredentials throws without credentials unless the login mode
\* is browser (allowMissing), else launchBrowser opens a blank page
StartRun(kind, dry) ==
    /\ pc = "idle"
    /\ runs < cfg.invocations
    /\ run' = [kind |-> kind, dryRun |-> (kind = "check" \/ dry)]
    /\ runs' = runs + 1
    /\ IF cfg.creds = "none" /\ cfg.loginMode # "browser"
       THEN /\ pc' = "failed"
            /\ obs' = "no-credentials"
            /\ res' = [NoRes EXCEPT !.err = "missing-credentials"]
       ELSE /\ pc' = "login"
            /\ obs' = "none"
            /\ res' = NoRes
    /\ url' = "blank"
    /\ pageTP' = FALSE
    /\ elapsed' = 0
    /\ sinceNav' = NavIntervalTicks + 1
    /\ hist' = NoHist
    /\ UNCHANGED <<cfg, authed, tpStored, accStored, prev>>
    /\ UNCHANGED offPage

\* the invocation returns or rejects: the finally block (saveStorageState,
\* closeBrowser) when the browser was launched
Teardown ==
    /\ pc \in {"done", "failed"}
    /\ pc' = "idle"
    /\ prev' = [kind |-> run.kind, dryRun |-> run.dryRun, tp |-> res.tp,
                acc |-> res.acc]
    /\ run' = [kind |-> "none", dryRun |-> FALSE]
    /\ url' = "blank"
    /\ pageTP' = FALSE
    /\ elapsed' = 0
    /\ sinceNav' = NavIntervalTicks + 1
    /\ obs' = "none"
    /\ res' = NoRes
    /\ hist' = NoHist
    /\ UNCHANGED <<cfg, authed, tpStored, accStored, runs>>
    /\ UNCHANGED offPage

(* ----------------------------- ensureLoggedIn ------------------------- *)

\* ensureLoggedIn up to its first wait: checkLoggedIn, then the choice of login path
LoginCheck ==
    /\ pc = "login"
    /\ \E u \in GotoOutcomes("profile", authed) :
         LET loggedIn == checkLoggedIn(u, ~authed) IN
         IF loggedIn
         THEN /\ url' = u
              /\ pc' = "tp_start"
              /\ obs' = "logged-in"
              /\ res' = res
         ELSE IF cfg.creds = "none"
         THEN IF cfg.loginMode # "browser"
              THEN /\ url' = u
                   /\ pc' = "failed"
                   /\ obs' = "logged-out"
                   /\ res' = Thrown("missing-credentials", 0)
              ELSE IF cfg.headless
              THEN /\ url' = u
                   /\ pc' = "failed"
                   /\ obs' = "logged-out"
                   /\ res' = Thrown("manual-login-headless", 0)
              ELSE /\ url' \in GotoOutcomes("login", FALSE)
                   /\ pc' = "manual_wait"
                   /\ obs' = "logged-out"
                   /\ res' = res
         ELSE /\ url' \in GotoOutcomes("login", FALSE)
              /\ pc' = "login_fill"
              /\ obs' = "logged-out"
              /\ res' = res
    /\ elapsed' = 0
    /\ UNCHANGED <<cfg, remote, run, sinceNav, hist, prev, runs>>
    /\ UNCHANGED offPage

\* what the login page offers to fillLoginForm
LoginPages == {"no-field", "no-button", "plain", "otp", "otp-no-verify"}

\* a login that goes on when no code is held
OtpDecisionLenient(otpField, hasOtp) ==
    IF otpField /\ hasOtp THEN "submit" ELSE "none"

\* fillLoginForm after submit.click(): `if (otpField) { if (!creds.otp) throw ...`
OtpDecision(otpField, hasOtp) ==
    IF ~otpField THEN "none" ELSE IF ~hasOtp THEN "otp-required" ELSE "submit"

\* fillLoginForm
LoginFill ==
    /\ pc = "login_fill"
    /\ \E page \in LoginPages :
         CASE page = "no-field" ->
                /\ pc' = "failed"
                /\ res' = Thrown("login-field-missing", 0)
                /\ hist' = hist
                /\ obs' = "no-field"
           [] page = "no-button" ->
                /\ pc' = "failed"
                /\ res' = Thrown("button-missing", 0)
                /\ hist' = hist
                /\ obs' = "no-button"
           [] OTHER ->
                LET otpField == page \in {"otp", "otp-no-verify"}
                    decision == OtpDecision(otpField, cfg.creds = "password+otp")
                    seen == IF otpField THEN "otp-field" ELSE "no-otp-field" IN
                IF decision = "none"
                THEN /\ pc' = "login_wait"
                     /\ res' = res
                     /\ hist' = Did(hist, {"credentials"})
                     /\ obs' = seen
                ELSE IF decision = "otp-required"
                THEN /\ pc' = "failed"
                     /\ res' = Thrown("otp-required", 1)
                     /\ hist' = Shots(Did(hist, {"credentials"}), 1)
                     /\ obs' = seen
                ELSE IF page = "otp-no-verify"
                THEN /\ pc' = "failed"
                     /\ res' = Thrown("button-missing", 0)
                     /\ hist' = Did(hist, {"credentials"})
                     /\ obs' = "otp-field"
                ELSE /\ pc' = "login_wait"
                     /\ res' = res
                     /\ hist' = Did(hist, {"credentials", "otp"})
                     /\ obs' = "otp-field"
    /\ elapsed' = 0
    /\ UNCHANGED <<cfg, url, remote, run, sinceNav, prev, runs>>
    /\ UNCHANGED offPage

\* one iteration of waitForLogin (after credentials) or waitForManualLogin
LoginWaitIter ==
    /\ pc \in {"login_wait", "manual_wait"}
    /\ LET timeout == TimeoutOf(cfg, IF pc = "login_wait" THEN DefaultLoginTimeout
                                     ELSE DefaultAccessTimeout) IN
       IF Expired(elapsed, timeout)
       THEN /\ pc' = "failed"
            /\ res' = Thrown("login-timeout", 1)
            /\ hist' = Shots(hist, 1)
            /\ obs' = "timeout"
            /\ UNCHANGED <<url, elapsed>>
       ELSE IF UrlIsLogin(url)
       THEN /\ \E d \in SleepTimes(PollTicks) : elapsed' = Later(elapsed, d, timeout)
            /\ obs' = "login"
            /\ UNCHANGED <<pc, res, url, hist>>
       ELSE \E u \in GotoOutcomes("profile", authed) :
              /\ url' = u
              /\ IF checkLoggedIn(u, ~authed)
                 THEN /\ pc' = "tp_start"
                      /\ obs' = "logged-in"
                      /\ elapsed' = 0
                 ELSE /\ \E d \in SleepTimes(PollTicks) :
                           elapsed' = Later(elapsed, d, timeout)
                      /\ obs' = "logged-out"
                      /\ pc' = pc
              /\ UNCHANGED <<res, hist>>
    /\ UNCHANGED <<cfg, remote, run, sinceNav, prev, runs>>
    /\ UNCHANGED offPage

\* the remote side of a login: the submitted credentials are accepted, or the
\* operator completes the login in the browser window
LoginCompletes ==
    /\ pc \in {"login_wait", "manual_wait", "tp_ready", "acc_ready"}
    /\ UrlIsLogin(url)
    /\ ~authed
    /\ pc \in {"manual_wait", "tp_ready", "acc_ready"} => ~cfg.headless
    /\ authed' = TRUE
    /\ url' = "other"
    /\ UNCHANGED <<cfg, tpStored, pageTP, accStored, run, pc, elapsed, sinceNav,
                   obs, res, hist, prev, runs>>
    /\ UNCHANGED offPage

(* --------------------------- waitForAccessReady ----------------------- *)

\* the page a navigation to the access address loads: it lists what the registry holds
Loaded(u) == u = "access" /\ tpStored

\* one iteration of waitForAccessReady, for either ensure operation
\* a wait that returns on a ready page whatever the challenge gate shows
AccessReadyIgnoringGate(login, gate, ready) == ~login /\ ready

\* waitForAccessReady returns: isTrustedPublishersReady held in an iteration
\* that found the page off the login address and no challenge gate
AccessReady(login, gate, ready) == ~login /\ ~gate /\ ready

AccessReadyIter ==
    /\ pc \in {"tp_ready", "acc_ready"}
    /\ LET timeout == TimeoutOf(cfg, DefaultAccessTimeout)
           renav == IF pc = "tp_ready" THEN "tp-renav" ELSE "acc-renav"
           next == IF pc = "tp_ready" THEN "tp_check" ELSE "acc_check"
           Sleep(what) ==
               /\ \E d \in SleepTimes(PollTicks) :
                    /\ elapsed' = Later(elapsed, d, timeout)
                    /\ sinceNav' = LaterNav(sinceNav, d)
                    /\ hist' = Aged(hist, d)
               /\ obs' = what
               /\ UNCHANGED <<pc, res, url, pageTP>>
           Throw(kind, attempts, what) ==
               /\ pc' = "failed"
               /\ res' = Thrown(kind, attempts)
               /\ hist' = Shots(hist, attempts)
               /\ obs' = what
               /\ UNCHANGED <<url, pageTP, elapsed, sinceNav>>
       IN
       IF Expired(elapsed, timeout)
       THEN Throw("access-timeout", 1, "timeout")
       ELSE IF UrlIsLogin(url)
       THEN IF ManualAllowed(cfg)
            THEN Sleep("login")
            ELSE Throw("not-logged-in", 0, "login")
       ELSE \E gate \in BOOLEAN, ready \in (IF url = "access" THEN BOOLEAN ELSE {FALSE}) :
              IF gate /\ ~AccessReady(UrlIsLogin(url), gate, ready)
              THEN IF ManualAllowed(cfg)
                   THEN Sleep("gate")
                   ELSE Throw("2fa-required", 0, "gate")
              ELSE IF AccessReady(UrlIsLogin(url), gate, ready)
              THEN /\ pc' = next
                   /\ obs' = "ready"
                   /\ hist' = [Left(hist) EXCEPT !.ready =
                                  IF UrlIsLogin(url) \/ gate THEN "blocked" ELSE "clear"]
                   /\ elapsed' = 0
                   /\ sinceNav' = NavIntervalTicks + 1
                   /\ UNCHANGED <<res, url, pageTP>>
              ELSE IF ShouldNavigate(url, sinceNav)
              THEN /\ sinceNav' = 0
                   /\ \E u \in GotoOutcomes("access", authed) :
                        /\ url' = u
                        /\ pageTP' = Loaded(u)
                   /\ hist' = Renavigated(hist, renav)
                   /\ obs' = "not-ready"
                   /\ UNCHANGED <<pc, res, elapsed>>
              ELSE Sleep("not-ready")
    /\ UNCHANGED <<cfg, authed, tpStored, accStored, run, prev, runs>>
    /\ UNCHANGED offPage

\* the console leaves an interstitial address (a completed challenge) for the page asked for
InterstitialRedirects ==
    /\ pc \in {"tp_ready", "acc_ready"}
    /\ url = "other"
    /\ authed
    /\ url' = "access"
    /\ pageTP' = Loaded("access")
    /\ UNCHANGED <<cfg, authed, tpStored, accStored, run, pc, elapsed, sinceNav,
                   obs, res, hist, prev, runs>>
    /\ UNCHANGED offPage

(* ------------------------- ensureTrustedPublisher --------------------- *)

\* an ensure that skips the presence check
PublisherDecisionBlind(exists, dryRun) == IF dryRun THEN "dry-run" ELSE "mutate"

\* what ensureTrustedPublisher does with the presence check and options.dryRun
PublisherDecision(exists, dryRun) ==
    IF exists THEN "exists" ELSE IF dryRun THEN "dry-run" ELSE "mutate"

\* a submission assumed to have worked
ConfirmOutcomeAssumed(confirmed) == "added"

\* `if (!confirmed) throw`: the result of the operation after waitForTrustedPublisher
ConfirmOutcome(confirmed) == IF confirmed THEN "added" ELSE "confirm-failed"

\* an unconfirmed submission that is tried once more
AfterConfirmFailureRetry(submits) == IF submits < 2 THEN "tp_fill" ELSE "failed"

\* where `throw new Error('Failed to confirm trusted publisher creation')`
\* leaves the invocation after `submits` submissions
AfterConfirmFailure(submits) == "failed"

\* ensureTrustedPublisher: page.goto(accessUrl(target.packageName))
TPStart ==
    /\ pc = "tp_start"
    /\ \E u \in GotoOutcomes("access", authed) :
         /\ url' = u
         /\ pageTP' = Loaded(u)
    /\ hist' = Entered(hist, "tp-goto")
    /\ elapsed' = 0
    /\ sinceNav' = NavIntervalTicks + 1
    /\ pc' = "tp_ready"
    /\ obs' = "none"
    /\ UNCHANGED <<cfg, authed, tpStored, accStored, run, res, prev, runs>>
    /\ UNCHANGED offPage

\* focusTrustedPublishersSection, hasTrustedPublisher, the dry-run return,
\* selectPublisherProvider
TPCheck ==
    /\ pc = "tp_check"
    /\ LET exists == hasTrustedPublisher(VisibleText, cfg.target)
           decision == PublisherDecision(exists, run.dryRun) IN
       CASE decision = "exists" ->
              /\ res' = [res EXCEPT !.tp = "exists"]
              /\ pc' = "acc_start"
              /\ hist' = hist
              /\ obs' = "present"
         [] decision = "dry-run" ->
              /\ res' = [res EXCEPT !.tp = "dry-run"]
              /\ pc' = "acc_start"
              /\ hist' = [hist EXCEPT !.sawMissing = ~exists]
              /\ obs' = "missing"
         [] OTHER ->
              /\ res' = res
              /\ pc' = "tp_form"
              /\ \E control \in BOOLEAN :
                   hist' = [Did(hist, IF control THEN {"select"} ELSE {})
                              EXCEPT !.sawMissing = ~exists]
              /\ obs' = "missing"
    /\ elapsed' = 0
    /\ UNCHANGED <<cfg, url, remote, run, sinceNav, prev, runs>>
    /\ UNCHANGED offPage

\* one iteration of waitForTrustedPublisherForm; what it throws is caught by
\* ensureTrustedPublisher, which takes a screenshot of its own and rethrows
TPFormIter ==
    /\ pc = "tp_form"
    /\ LET timeout == TimeoutOf(cfg, DefaultLoginTimeout)
           Sleep(n, what) ==
               /\ \E d \in SleepTimes(n) : elapsed' = Later(elapsed, d, timeout)
               /\ obs' = what
               /\ UNCHANGED <<pc, res, hist>>
       IN
       IF Expired(elapsed, timeout)
       THEN /\ pc' = "failed"
            /\ res' = Thrown("form-timeout", 2)
            /\ hist' = Shots(hist, 2)
            /\ obs' = "timeout"
            /\ elapsed' = elapsed
       ELSE \E gate \in BOOLEAN, ownerField \in BOOLEAN :
              IF gate
              THEN IF ManualAllowed(cfg)
                   THEN Sleep(PollTicks, "gate")
                   ELSE /\ pc' = "failed"
                        /\ res' = Thrown("2fa-required", 1)
                        /\ hist' = Shots(hist, 1)
                        /\ obs' = "gate"
                        /\ elapsed' = elapsed
              ELSE IF ownerField
              THEN /\ pc' = "tp_fill"
                   /\ obs' = "form"
                   /\ elapsed' = 0
                   /\ UNCHANGED <<res, hist>>
              ELSE Sleep(FormPollTicks, "no-form")
    /\ UNCHANGED <<cfg, url, remote, run, sinceNav, prev, runs>>
    /\ UNCHANGED offPage

\* fillTrustedPublisherForm (inside the try block), then clickSetupConnection
TPFillSubmit ==
    /\ pc = "tp_fill"
    /\ \E fields \in BOOLEAN, button \in BOOLEAN, accepted \in BOOLEAN :
         IF ~fields
         THEN /\ pc' = "failed"
              /\ res' = Thrown("field-missing", 1)
              /\ hist' = Shots(hist, 1)
              /\ obs' = "no-field"
              /\ tpStored' = tpStored
         ELSE IF ~button
         THEN /\ pc' = "failed"
              /\ res' = Thrown("button-missing", 0)
              /\ hist' = Did(hist, {"fill"})
              /\ obs' = "no-button"
              /\ tpStored' = tpStored
         ELSE /\ pc' = "tp_confirm"
              /\ res' = res
              /\ hist' = [Did(hist, {"fill", "setup"}) EXCEPT !.tpSubmits = @ + 1]
              /\ obs' = "submitted"
              /\ tpStored' = (tpStored \/ accepted)
    /\ elapsed' = 0
    /\ UNCHANGED <<cfg, url, authed, pageTP, accStored, run, sinceNav, prev, runs>>
    /\ UNCHANGED offPage

\* one iteration of waitForTrustedPublisher, and what ensureTrustedPublisher
\* makes of its result
TPConfirmIter ==
    /\ pc = "tp_confirm"
    /\ LET timeout == TimeoutOf(cfg, DefaultConfirmTimeout)
           present == hasTrustedPublisher(VisibleText, cfg.target) IN
       IF Expired(elapsed, timeout) \/ present
       THEN LET confirmed == ~Expired(elapsed, timeout)
                outcome == ConfirmOutcome(confirmed) IN
            IF outcome = "added"
            THEN /\ pc' = "acc_start"
                 /\ res' = [res EXCEPT !.tp = "added"]
                 /\ hist' = [hist EXCEPT !.confirmed = (confirmed /\ present)]
                 /\ obs' = IF present THEN "present" ELSE "timeout"
                 /\ elapsed' = 0
            ELSE /\ pc' = AfterConfirmFailure(hist.tpSubmits)
                 /\ res' = Thrown("confirm-failed", 1)
                 /\ hist' = Shots(hist, 1)
                 /\ obs' = "timeout"
                 /\ elapsed' = elapsed
       ELSE /\ \E d \in SleepTimes(PollTicks) : elapsed' = Later(elapsed, d, timeout)
            /\ obs' = "missing"
            /\ UNCHANGED <<pc, res, hist>>
    /\ UNCHANGED <<cfg, url, remote, run, sinceNav, prev, runs>>
    /\ UNCHANGED offPage

\* the console shows the stored publisher on the page after the submission
PublisherShown ==
    /\ pc = "tp_confirm"
    /\ url = "access"
    /\ tpStored
    /\ ~pageTP
    /\ pageTP' = TRUE
    /\ UNCHANGED <<cfg, url, authed, tpStored, accStored, run, pc, elapsed, sinceNav,
                   obs, res, hist, prev, runs>>
    /\ UNCHANGED offPage

(* ------------------------- ensurePublishingAccess --------------------- *)

\* an access operation without the skip return
SkipsAccessNever(access) == FALSE

\* `if (target.publishingAccess === 'skip') return 'skipped'`
SkipsAccess(access) == access = "skip"

\* an access operation that ignores options.dryRun
AccessDecisionWet(already, dryRun) == IF already THEN "ok" ELSE "mutate"

\* what ensurePublishingAccess does with radio.isChecked() and options.dryRun
AccessDecision(already, dryRun) ==
    IF already THEN "ok" ELSE IF dryRun THEN "dry-run" ELSE "mutate"

\* ensurePublishingAccess: the skip return, else page.goto(accessUrl(...))
AccStart ==
    /\ pc = "acc_start"
    /\ IF SkipsAccess(cfg.target.publishingAccess)
       THEN /\ res' = [res EXCEPT !.acc = "skipped"]
            /\ pc' = "done"
            /\ hist' = [hist EXCEPT !.did = {}]
            /\ UNCHANGED <<url, pageTP, sinceNav>>
       ELSE /\ \E u \in GotoOutcomes("access", authed) :
                 /\ url' = u
                 /\ pageTP' = Loaded(u)
            /\ hist' = Entered(hist, "acc-goto")
            /\ sinceNav' = NavIntervalTicks + 1
            /\ pc' = "acc_ready"
            /\ res' = res
    /\ elapsed' = 0
    /\ obs' = "none"
    /\ UNCHANGED <<cfg, authed, tpStored, accStored, run, prev, runs>>
    /\ UNCHANGED offPage

\* findRadio, radio.isChecked(), the dry-run return, radio.click()
AccCheck ==
    /\ pc = "acc_check"
    /\ \E radio \in BOOLEAN :
         IF ~radio
         THEN /\ res' = [res EXCEPT !.acc = "skipped"]
              /\ pc' = "done"
              /\ hist' = hist
              /\ obs' = "no-radio"
         ELSE LET already == accStored = accessLabel(cfg.target.publishingAccess)
                  decision == AccessDecision(already, run.dryRun)
                  seen == [hist EXCEPT !.radioObs =
                               IF already THEN "checked" ELSE "unchecked"] IN
              CASE decision = "ok" ->
                     /\ res' = [res EXCEPT !.acc = "ok"]
                     /\ pc' = "done"
                     /\ hist' = seen
                     /\ obs' = "checked"
                [] decision = "dry-run" ->
                     /\ res' = [res EXCEPT !.acc = "dry-run"]
                     /\ pc' = "done"
                     /\ hist' = seen
                     /\ obs' = "unchecked"
                [] OTHER ->
                     /\ res' = res
                     /\ pc' = "acc_save"
                     /\ hist' = Did(seen, {"radio"})
                     /\ obs' = "unchecked"
    /\ UNCHANGED <<cfg, url, remote, run, elapsed, sinceNav, prev, runs>>
    /\ UNCHANGED offPage

\* findButton, save.click(), page.waitForTimeout(1000), return 'updated'
AccSave ==
    /\ pc = "acc_save"
    /\ \E button \in BOOLEAN, accepted \in BOOLEAN :
         IF ~button
         THEN /\ pc' = "failed"
              /\ res' = Thrown("button-missing", 0)
              /\ hist' = hist
              /\ obs' = "no-button"
              /\ accStored' = accStored
         ELSE /\ pc' = "done"
              /\ res' = [res EXCEPT !.acc = "updated"]
              /\ hist' = [Did(hist, {"save"}) EXCEPT !.accSubmits = @ + 1]
              /\ obs' = "submitted"
              /\ accStored' = IF accepted
                              THEN accessLabel(cfg.target.publishingAccess)
                              ELSE accStored
    /\ UNCHANGED <<cfg, url, authed, tpStored, pageTP, run, elapsed, sinceNav, prev, runs>>
    /\ UNCHANGED offPage

(* --------------------- applyTrustedPublisherViaToken ------------------ *)

\* response.status of the replayed request
ReplayStatuses == {199, 200, 204, 302, 399, 400, 401, 500}

\* lengths of the trimmed response body; 0 also when response.text() fails
ReplayBodies == {0, 150, 250}

\* text.trim().slice(0, 200)
SnippetLimit == 200

\* the action of a stored template, as the sequence of its parts: what the form
\* of the console gave (a path, rooted or not, or the address of the page), and
\* what a template can hold besides (two leading slashes, another host)
TemplateActions ==
    {<<"/", "package/pkg/access">>,
     <<"package/pkg/access">>,
     <<"/", "/", "other.example", "/", "collect">>,
     <<"https://", "www.npmjs.com", "/", "package/pkg/access">>,
     <<"https://", "other.example", "/", "collect">>}

\* /^https?:\/\//i.test(action)
IsAbsolute(action) == action[1] \in {"http://", "https://"}

\* normalizeTemplateAction: an absolute action as it is, any other on the
\* origin of the console
normalizeTemplateAction(action) ==
    IF IsAbsolute(action) THEN action
    ELSE IF action[1] = "/" THEN <<"https://", "www.npmjs.com">> \o action
    ELSE <<"https://", "www.npmjs.com", "/">> \o action

\* the host of an absolute address
HostOf(address) == address[2]

\* a replay that accepts success-class statuses only
ReplayAcceptedSuccessOnly(status) == status >= 200 /\ status < 300

\* response.status >= 200 && response.status < 400
ReplayAccepted(status) == status >= 200 /\ status < 400

\* applyTrustedPublisherViaToken: one fetch of the template's action, then the
\* return or the throw; the registry stores the publisher or not
applyTrustedPublisherViaToken ==
    /\ pc = "idle"
    /\ runs < cfg.invocations
    /\ runs' = runs + 1
    /\ run' = [kind |-> "replay", dryRun |-> FALSE]
    /\ \E status \in ReplayStatuses, body \in ReplayBodies, action \in TemplateActions :
         /\ hist' = [NoHist EXCEPT
                       !.requests = @ + 1,
                       !.request = normalizeTemplateAction(action),
                       !.response = [status |-> status, body |-> body],
                       !.message = IF ReplayAccepted(status) THEN @
                                   ELSE [status |-> status,
                                         snippet |-> Min(body, SnippetLimit)]]
         /\ obs' = (IF ReplayAccepted(status) THEN "accepted" ELSE "refused")
         /\ IF ReplayAccepted(status)
            THEN /\ pc' = "done"
                 /\ res' = NoRes
                 /\ tpStored' \in {tpStored, TRUE}
            ELSE /\ pc' = "failed"
                 /\ res' = [NoRes EXCEPT !.err = "token-apply-failed"]
                 /\ tpStored' = tpStored
    /\ UNCHANGED <<cfg, url, authed, pageTP, accStored, elapsed, sinceNav, prev>>
    /\ UNCHANGED offPage

(* ------------------- resolveCredentials: the chain -------------------- *)

\* no browser invocation is under way
PageIdle ==
    /\ url = "blank" /\ tpStored = FALSE /\ pageTP = FALSE
    /\ cfg = CHOOSE c \in Configs : c.invocations = 1
    /\ authed = FALSE
    /\ accStored = "allow-bypass-token"
    /\ run = [kind |-> "none", dryRun |-> FALSE]
    /\ pc = "idle"
    /\ elapsed = 0
    /\ sinceNav = NavIntervalTicks + 1
    /\ obs = "none"
    /\ res = NoRes
    /\ hist = NoHist
    /\ prev = NoPrev
    /\ runs = 0

\* resolveCredentials is called with its options
CredInit ==
    /\ PageIdle
    /\ detect = NoDetect
    /\ capture = NoCapture
    /\ conf = NoConf
    /\ cli = NoCli
    /\ norm = NoNorm
    /\ token = NoToken
    /\ gatePass = NoGate
    /\ \E o \in CredOptions : chain = [NoChain EXCEPT !.o = o, !.status = "running"]

\* one iteration of `for (const provider of providers)`: provider.resolve, mergeCredentials
ProviderResolves ==
    /\ chain.status = "running"
    /\ chain.i <= Len(ProviderList(chain.o.interactive))
    /\ LET provider == ProviderList(chain.o.interactive)[chain.i] IN
       \E r \in Resolve(provider, chain.o, chain.current) :
          chain' =
            [chain EXCEPT
               !.status = IF r.threw THEN "cli-failed" ELSE "running",
               !.i = IF r.threw THEN @ ELSE @ + 1,
               !.current = IF r.threw THEN @ ELSE mergeCredentials(@, r.out),
               !.suppliers = @ \cup {[i |-> chain.i, field |-> f, value |-> r.out[f]]
                                       : f \in {g \in Fields : r.out[g] # Empty}},
               !.lookups = @ \cup (IF "password" \in r.reads
                                        /\ chain.current["password"] # Empty
                                    THEN {provider} ELSE {}),
               !.swallowed = @ \cup (IF r.swallowed THEN {provider} ELSE {})]
    /\ UNCHANGED exceptChain

\* resolveCredentials after the loop: the throw, the null, or the credentials
ResolveReturns ==
    /\ chain.status = "running"
    /\ chain.i > Len(ProviderList(chain.o.interactive))
    /\ chain' =
         [chain EXCEPT !.status =
            IF chain.current["username"] = Empty \/ chain.current["password"] = Empty
            THEN (IF chain.o.allowMissing THEN "null" ELSE "missing")
            ELSE "resolved"]
    /\ UNCHANGED exceptChain

CredNext == ProviderResolves \/ ResolveReturns

CredSpec == CredInit /\ [][CredNext]_vars

(* ----------------- resolveChromeProfileAuto: the steps ---------------- *)

\* resolveChromeProfileAuto is called: a user data directory with n profiles
\* (none when the directory is missing), a cookie reader or none
DetectInit ==
    /\ PageIdle
    /\ chain = NoChain
    /\ capture = NoCapture
    /\ conf = NoConf
    /\ cli = NoCli
    /\ norm = NoNorm
    /\ token = NoToken
    /\ gatePass = NoGate
    /\ \E n \in 0 .. MaxProfiles, reader \in BOOLEAN :
         detect = [NoDetect EXCEPT !.n = n, !.reader = reader, !.status = "called"]

\* resolveChromeProfileAuto up to detectProfileByCookies
DetectStart ==
    /\ detect.status = "called"
    /\ detect' = [detect EXCEPT !.status =
                     IF detect.n = 0 THEN "done"
                     ELSE IF detect.reader THEN "reading" ELSE "fallback"]
    /\ UNCHANGED exceptDetect

\* one iteration of `for (const profile of profiles)`: getCookies for both
\* NPM_URLS (a failed read is logged and skipped), then the candidate
ReadProfileCookies ==
    /\ detect.status = "reading"
    /\ detect.i <= detect.n
    /\ \E first \in CookieReads, second \in CookieReads :
         LET cookies == Concat(IF first.ok THEN first.found ELSE EmptyJar,
                               IF second.ok THEN second.found ELSE EmptyJar) IN
         detect' = [detect EXCEPT
                      !.i = @ + 1,
                      !.candidates = IF CookieCount(cookies) = 0 THEN @
                                     ELSE Append(@, Candidate(detect.i, cookies))]
    /\ UNCHANGED exceptDetect

\* detectProfileByCookies after the loop, and the return of a cookie candidate
SelectCandidate ==
    /\ detect.status = "reading"
    /\ detect.i > detect.n
    /\ detect' = IF Len(detect.candidates) = 0
                 THEN [detect EXCEPT !.status = "fallback"]
                 ELSE [detect EXCEPT !.status = "done", !.reason = "cookies",
                                     !.profile = TopCandidate(detect.candidates).profile]
    /\ UNCHANGED exceptDetect

\* readLastActiveProfile and the last two returns of resolveChromeProfileAuto
LastActiveFallback ==
    /\ detect.status = "fallback"
    /\ \E file \in LocalStates :
         LET lastActive == readLastActiveProfile(file) IN
         detect' = IF LastActiveUsable(lastActive, detect.n)
                   THEN [detect EXCEPT !.status = "done", !.reason = "last-active",
                                       !.profile = lastActive, !.lastActive = lastActive]
                   ELSE [detect EXCEPT !.status = "done", !.lastActive = lastActive]
    /\ UNCHANGED exceptDetect

DetectNext == DetectStart \/ ReadProfileCookies \/ SelectCandidate \/ LastActiveFallback

DetectSpec == DetectInit /\ [][DetectNext]_vars

(* --------------- buildTrustedPublisherTemplate: the steps ------------- *)

\* buildTrustedPublisherTemplate is called with the named inputs of the form
CaptureInit ==
    /\ PageIdle
    /\ chain = NoChain
    /\ detect = NoDetect
    /\ conf = NoConf
    /\ cli = NoCli
    /\ norm = NoNorm
    /\ token = NoToken
    /\ gatePass = NoGate
    /\ \E len \in 0 .. MaxInputs :
         \E inputs \in [1 .. len -> FormInputs] :
            capture = [NoCapture EXCEPT !.inputs = inputs, !.status = "mapping"]

\* one iteration of `for (const input of inputs)` in mapTrustedPublisherFields
MapInput ==
    /\ capture.status = "mapping"
    /\ capture.i <= Len(capture.inputs)
    /\ LET input == capture.inputs[capture.i]
           k == ClaimedField(capture.map, input.haystack)
       IN  capture' = IF k = 0
                      THEN [capture EXCEPT !.i = @ + 1]
                      ELSE [capture EXCEPT !.i = @ + 1,
                                           !.map[LogicalFields[k]] = input.name,
                                           !.from[LogicalFields[k]] = capture.i]
    /\ UNCHANGED exceptCapture

\* the end of mapTrustedPublisherFields, and the rest of buildTrustedPublisherTemplate
MapReturns ==
    /\ capture.status = "mapping"
    /\ capture.i > Len(capture.inputs)
    /\ capture' =
         IF MissingFields(capture.map) # {}
         THEN [capture EXCEPT !.status = "failed", !.missing = MissingFields(capture.map)]
         ELSE [capture EXCEPT
                 !.status = "returned",
                 !.template = [made |-> TRUE, fieldMap |-> capture.map,
                               staticFields |-> StaticFields(capture.inputs, capture.map)]]
    /\ UNCHANGED exceptCapture

CaptureNext == MapInput \/ MapReturns

CaptureSpec == CaptureInit /\ [][CaptureNext]_vars

(* ------------------------ writeConfig: the steps ---------------------- *)

\* a configuration file with some keys set, and one writeConfig call or more,
\* each with its update
ConfInit ==
    /\ PageIdle
    /\ chain = NoChain
    /\ detect = NoDetect
    /\ capture = NoCapture
    /\ cli = NoCli
    /\ norm = NoNorm
    /\ token = NoToken
    /\ gatePass = NoGate
    /\ \E content \in [ConfigKeys -> {"", "old"}], n \in 1 .. MaxWriters :
         \E writers \in [1 .. MaxWriters -> [pc : {"idle", "called"},
                                             update : UNION {UpdatesOf(w) : w \in 1 .. MaxWriters}
                                                        \cup {EmptyConfig},
                                             merged : {EmptyConfig}]] :
            /\ \A w \in 1 .. MaxWriters :
                 IF w <= n
                 THEN writers[w].pc = "called" /\ writers[w].update \in UpdatesOf(w)
                 ELSE writers[w] = IdleWriter
            /\ conf = [NoConf EXCEPT !.file.content = content, !.initial = content,
                                     !.writers = writers]

\* a writer is between its read and the end of its write
Writing(w) == conf.writers[w].pc \in {"merged", "opened"}

\* writeConfig up to the merge: readConfig, then { ...current, ...update }
ConfigRead(w) ==
    /\ conf.writers[w].pc = "called"
    /\ conf' = [conf EXCEPT
                  !.writers[w].pc = "merged",
                  !.writers[w].merged = mergeConfig(readConfig(conf.file),
                                                    conf.writers[w].update),
                  !.overlapped = @ \/ \E v \in 1 .. MaxWriters : v # w /\ Writing(v)]
    /\ UNCHANGED exceptConf

\* writeFile opens the file for writing, which empties it
ConfigWriteOpens(w) ==
    /\ conf.writers[w].pc = "merged"
    /\ conf' = [conf EXCEPT !.writers[w].pc = "opened", !.file.whole = FALSE]
    /\ UNCHANGED exceptConf

\* writeFile finishes: the file holds the merged configuration
ConfigWriteEnds(w) ==
    /\ conf.writers[w].pc = "opened"
    /\ conf' = [conf EXCEPT !.writers[w].pc = "done",
                            !.file = [whole |-> TRUE, content |-> conf.writers[w].merged]]
    /\ UNCHANGED exceptConf

ConfNext ==
    \E w \in 1 .. MaxWriters : ConfigRead(w) \/ ConfigWriteOpens(w) \/ ConfigWriteEnds(w)

ConfSpec == ConfInit /\ [][ConfNext]_vars

(* ------------------ the commands check and ensure: steps -------------- *)

\* runCheck or runEnsure is called, or runInstall has collected its targets;
\* the browser of a remote-debug endpoint is running already
CliInit ==
    /\ PageIdle
    /\ chain = NoChain
    /\ detect = NoDetect
    /\ capture = NoCapture
    /\ conf = NoConf
    /\ norm = NoNorm
    /\ token = NoToken
    /\ gatePass = NoGate
    /\ \/ \E o \in CliOptions, world \in CliWorlds :
            cli = [NoCli EXCEPT !.o = o, !.world = world, !.pc = "target",
                                !.browser = IF o.mode = "cdp" THEN "running" ELSE "none"]
       \/ \E o \in InstallOptions, others \in [1 .. MaxTargets -> WizardWorlds] :
            cli = [NoCli EXCEPT !.o = o, !.others = others, !.world = others[1],
                                !.pc = "launch",
                                !.browser = IF o.mode = "cdp" THEN "running" ELSE "none"]

\* the promise of the command rejects: runMain reports the error, exit code 1
Rejected(c, what) == [c EXCEPT !.pc = "exited", !.threw = what, !.exitCode = 1]

\* the dryRun option of a step: that of the command, and in the wizard
\* stage !== 'ensure'
StepDryRun(c) == IF c.o.cmd = "install" THEN c.stage # "ensure" ELSE DryRunGiven(c.o)

\* runWizardChecks is called for a stage: it starts with the first target
RunStage(c, stage) ==
    [c EXCEPT !.stage = stage, !.target = 1, !.world = c.others[1], !.pc = "publisher"]

\* runWizardChecks after the two steps of a target: the next target, or the
\* return to runInstall
WizardAfterAccess(c) ==
    LET seen == [c.others EXCEPT ![c.target] = c.world]
    IN  IF c.target < Len(c.others)
        THEN [c EXCEPT !.others = seen, !.target = @ + 1, !.world = seen[c.target + 1],
                       !.pc = "publisher"]
        ELSE [c EXCEPT !.others = seen,
                       !.pc = CASE c.stage = "precheck" -> "w-proceed"
                                [] c.stage = "ensure" -> "w-recheck"
                                [] OTHER -> "finally"]

\* resolveTarget: throws when owner, repo or workflow is missing
resolveTarget ==
    /\ cli.pc = "target"
    /\ cli' = IF TargetMissing(cli.o.missing)
              THEN Rejected(cli, "missing-fields")
              ELSE [cli EXCEPT !.pc = IF cli.o.cmd = "ensure" THEN "confirm" ELSE "launch"]
    /\ UNCHANGED exceptCli

\* runEnsure: confirmEnsure, and the return with exit code 1 when not confirmed
ConfirmStep ==
    /\ cli.pc = "confirm"
    /\ cli' = IF confirmEnsure(cli.o)
              THEN [cli EXCEPT !.pc = "launch"]
              ELSE [cli EXCEPT !.pc = "exited", !.exitCode = 1]
    /\ UNCHANGED exceptCli

\* reportRegistryStatus (which catches its errors), resolveBrowserOptions and
\* launchBrowser: a session, or an error of one of the last two.  The session
\* owns the browser unless it was attached over CDP; context.browser() of a
\* persistent context may be null
launchBrowser ==
    /\ cli.pc = "launch"
    /\ \/ \E handle \in (IF cli.o.mode = "persistent" THEN BOOLEAN ELSE {TRUE}) :
            cli' = [cli EXCEPT !.pc = "cookies", !.session = "open", !.launches = @ + 1,
                               !.browser = "running", !.handle = handle,
                               !.owns = cli.o.mode # "cdp"]
       \/ cli' = Rejected(cli, "launch")
    /\ UNCHANGED exceptCli

\* applyBrowserCookies, called before the try block
applyBrowserCookies ==
    /\ cli.pc = "cookies"
    /\ \/ cli' = [cli EXCEPT !.pc = "login"]
       \/ cli' = Rejected(cli, "cookies")
    /\ UNCHANGED exceptCli

\* ensureLoggedIn inside the try block
ensureLoggedIn ==
    /\ cli.pc = "login"
    /\ \/ cli' = [cli EXCEPT !.pc = IF cli.o.cmd = "install" THEN "w-begin" ELSE "publisher"]
       \/ cli' = [cli EXCEPT !.pc = AfterFailure(cli), !.threw = "login", !.failed = "login"]
    /\ UNCHANGED exceptCli

\* runInstall: the pre-check stage when the operator asked for it
WizardBegin ==
    /\ cli.pc = "w-begin"
    /\ \E runCheck \in BOOLEAN :
         cli' = IF runCheck THEN RunStage(cli, "precheck") ELSE [cli EXCEPT !.pc = "w-proceed"]
    /\ UNCHANGED exceptCli

\* runInstall: promptProceedEnsure, cancelled, declined or accepted
promptProceedEnsure ==
    /\ cli.pc = "w-proceed"
    /\ \E answer \in {"null", "no", "yes"} :
         cli' = IF answer = "yes" THEN RunStage(cli, "ensure") ELSE [cli EXCEPT !.pc = "finally"]
    /\ UNCHANGED exceptCli

\* runInstall: promptRunRecheck, cancelled, declined or accepted
promptRunRecheck ==
    /\ cli.pc = "w-recheck"
    /\ \E answer \in {"null", "no", "yes"} :
         cli' = IF answer = "yes" THEN RunStage(cli, "postcheck") ELSE [cli EXCEPT !.pc = "finally"]
    /\ UNCHANGED exceptCli

\* ensureTrustedPublisher with the dryRun option of the command or of the
\* stage.  An error leaves the try block; the wizard's catch clause swallows
\* the error of a closed browser and returns, and rethrows any other
ensureTrustedPublisher ==
    /\ cli.pc = "publisher"
    /\ LET dry == StepDryRun(cli)
           called == [cli EXCEPT !.calls = Append(@, [step |-> "publisher", dryRun |-> dry])]
       IN  \/ cli' = [called EXCEPT
                        !.pc = "access",
                        !.status = IF cli.world.tpPresent THEN "exists"
                                   ELSE IF dry THEN "dry-run" ELSE "added",
                        !.world.tpPresent = @ \/ ~dry,
                        !.mutated = @ \/ (~cli.world.tpPresent /\ ~dry)]
           \/ cli' = [called EXCEPT !.pc = AfterFailure(cli), !.threw = "publisher",
                                    !.failed = "publisher"]
           \/ /\ cli.o.cmd = "install"
              /\ cli' = [called EXCEPT !.pc = AfterFailure(cli), !.failed = "publisher"]
    /\ UNCHANGED exceptCli

\* ensurePublishingAccess with the dryRun option of the command or of the
\* stage, then the exit code of the try block, or the wizard's next target
ensurePublishingAccess ==
    /\ cli.pc = "access"
    /\ LET dry == StepDryRun(cli)
           called == [cli EXCEPT !.calls = Append(@, [step |-> "access", dryRun |-> dry])]
           accessStatus == CASE cli.world.access = "skip" -> "skipped"
                             [] cli.world.access = "matches" -> "ok"
                             [] cli.world.access = "differs" ->
                                  IF dry THEN "dry-run" ELSE "updated"
           registryOk == cli.world.registryTp # "no"
           returned == [called EXCEPT
                          !.accessStatus = accessStatus,
                          !.world.access = IF accessStatus = "updated" THEN "matches" ELSE @,
                          !.mutated = @ \/ accessStatus = "updated"]
       IN  \/ cli' = IF cli.o.cmd = "install"
                     THEN WizardAfterAccess(returned)
                     ELSE [returned EXCEPT
                             !.pc = "finally",
                             !.exitCode = IF cli.o.cmd = "check"
                                          THEN CheckExitCode(cli.status, accessStatus, registryOk)
                                          ELSE EnsureExitCode(cli.status, accessStatus)]
           \/ cli' = [called EXCEPT !.pc = AfterFailure(cli), !.threw = "access",
                                    !.failed = "access"]
           \/ /\ cli.o.cmd = "install"
              /\ cli' = [called EXCEPT !.pc = AfterFailure(cli), !.failed = "access"]
    /\ UNCHANGED exceptCli

\* finally: saveStorageState, which writes only when a storage path is given
saveStorageState ==
    /\ cli.pc = "finally"
    /\ \/ cli' = [cli EXCEPT !.pc = "close", !.saved = cli.o.storage]
       \/ /\ cli.o.storage
          /\ cli' = Rejected(cli, "storage")
    /\ UNCHANGED exceptCli

\* finally: closeBrowser, which swallows the errors of close; then the command
\* returns, or rejects with what the try block threw.  context.close() ends
\* the browser of a persistent context; browser.close() is called on a handle
\* of a browser the session owns
closeBrowser ==
    /\ cli.pc = "close"
    /\ cli' = [cli EXCEPT !.pc = "exited", !.session = "closed",
                          !.browser = IF cli.o.mode = "persistent"
                                         \/ ClosesBrowser(cli.handle, cli.owns)
                                      THEN "closed" ELSE @,
                          !.exitCode = IF cli.threw # "none" THEN 1 ELSE @]
    /\ UNCHANGED exceptCli

CliNext ==
    \/ resolveTarget \/ ConfirmStep \/ launchBrowser \/ applyBrowserCookies
    \/ ensureLoggedIn \/ WizardBegin \/ promptProceedEnsure \/ promptRunRecheck
    \/ ensureTrustedPublisher \/ ensurePublishingAccess
    \/ saveStorageState \/ closeBrowser

CliSpec == CliInit /\ [][CliNext]_vars

(* ------------------- the workflow of a target: steps ------------------ *)

\* a workflow reaches resolveTarget (check, ensure) or normalizeWorkflowName
\* (the targets of the non-interactive install)
NormInit ==
    /\ PageIdle
    /\ chain = NoChain
    /\ detect = NoDetect
    /\ capture = NoCapture
    /\ conf = NoConf
    /\ cli = NoCli
    /\ token = NoToken
    /\ gatePass = NoGate
    /\ \E via \in {"resolveTarget", "normalizeWorkflowName"}, input \in WorkflowInputs :
         norm = [NoNorm EXCEPT !.via = via, !.input = input, !.pc = "called"]

\* resolveTarget returns the target
ResolveWorkflow ==
    /\ norm.pc = "called" /\ norm.via = "resolveTarget"
    /\ norm' = [norm EXCEPT !.pc = "returned", !.workflow = ResolvedWorkflow(norm.input)]
    /\ UNCHANGED exceptNorm

\* normalizeWorkflowName returns the basename or throws
normalizeWorkflowName ==
    /\ norm.pc = "called" /\ norm.via = "normalizeWorkflowName"
    /\ LET trimmed == trim(norm.input)
       IN  norm' = IF trimmed = <<>> \/ basename(trimmed) = <<>>
                   THEN [norm EXCEPT !.pc = "threw"]
                   ELSE [norm EXCEPT !.pc = "returned", !.workflow = basename(trimmed)]
    /\ UNCHANGED exceptNorm

NormNext == ResolveWorkflow \/ normalizeWorkflowName

NormSpec == NormInit /\ [][NormNext]_vars

(* ----------------------- createAccessToken: steps --------------------- *)

\* createAccessToken is called
TokenInit ==
    /\ PageIdle
    /\ chain = NoChain
    /\ detect = NoDetect
    /\ capture = NoCapture
    /\ conf = NoConf
    /\ cli = NoCli
    /\ norm = NoNorm
    /\ gatePass = NoGate
    /\ \E o \in TokenOptions : token = [NoToken EXCEPT !.o = o, !.pc = "called"]

\* the command ends with the outcome of handleTokenResponse
Handled(t, status, json) ==
    LET outcome == handleTokenResponse(status, json)
    IN  [t EXCEPT !.pc = IF outcome = "token" THEN "returned" ELSE "threw",
                  !.result = outcome]

\* createAccessToken up to pollForOtp: the request with the supplied code, or
\* the request without one and the test of its answer
createAccessToken ==
    /\ token.pc = "called"
    /\ \E status \in CreateStatuses, json \in BOOLEAN :
       \E challenge \in (IF json THEN Challenges ELSE {"none"}) :
         IF token.o.otp
         THEN token' = Handled([token EXCEPT !.creates = <<[otp |-> "given"]>>], status, json)
         ELSE LET sent == [token EXCEPT !.creates = <<[otp |-> "none"]>>,
                                        !.first = [status |-> status, challenge |-> challenge]]
              IN  token' = IF status # 401 \/ ~extractWebAuthUrls(challenge)
                           THEN Handled(sent, status, json)
                           ELSE [sent EXCEPT !.pc = "polling"]
    /\ UNCHANGED exceptToken

\* pollForOtp: one iteration of the loop (the fetch, the code or the sleep), or
\* the throw after the loop; a fetch that rejects ends the call
pollForOtp ==
    /\ token.pc = "polling"
    /\ IF PollContinues(token.elapsed, token.o.timeout)
       THEN \E answer \in {"code", "pending", "rejected"}, f \in FetchTimes :
              LET fetched == [token EXCEPT !.polls = @ + 1, !.pollAt = token.elapsed]
              IN  token' =
                    CASE answer = "code" ->
                           [fetched EXCEPT !.code = TRUE, !.pc = "retry",
                                           !.elapsed = @ + f]
                      [] answer = "pending" ->
                           [fetched EXCEPT !.elapsed = @ + f + token.o.interval]
                      [] OTHER ->
                           [fetched EXCEPT !.pc = "threw", !.result = "fetch-failed"]
       ELSE token' = [token EXCEPT !.pc = "threw", !.result = "poll-timeout"]
    /\ UNCHANGED exceptToken

\* createAccessToken after pollForOtp: the request with the code obtained
CreateWithOtp ==
    /\ token.pc = "retry"
    /\ \E status \in CreateStatuses, json \in BOOLEAN :
         token' = Handled([token EXCEPT !.creates = Append(@, [otp |-> "polled"])],
                          status, json)
    /\ UNCHANGED exceptToken

TokenNext == createAccessToken \/ pollForOtp \/ CreateWithOtp

TokenSpec == TokenInit /\ [][TokenNext]_vars

(* ------------------------- isTwoFactorGate: steps --------------------- *)

\* isTwoFactorGate is called on a page
GateInit ==
    /\ PageIdle
    /\ chain = NoChain
    /\ detect = NoDetect
    /\ capture = NoCapture
    /\ conf = NoConf
    /\ cli = NoCli
    /\ norm = NoNorm
    /\ token = NoToken
    /\ \E visible \in SUBSET (1 .. GateSignals) :
         gatePass = [NoGate EXCEPT !.visible = visible, !.pc = "probing"]

\* one turn of the loop over the signals: isVisible with its timeout option,
\* and the return of true when the signal shows
ProbeSignal ==
    /\ gatePass.pc = "probing"
    /\ gatePass.next <= GateSignals
    /\ LET probed == [gatePass EXCEPT !.probes = Append(@, GateProbeTimeout)]
       IN  gatePass' = IF gatePass.next \in gatePass.visible
                   THEN [probed EXCEPT !.pc = "returned", !.result = TRUE]
                   ELSE [probed EXCEPT !.next = @ + 1]
    /\ UNCHANGED exceptGate

\* the loop is over: return false
GateReturnsFalse ==
    /\ gatePass.pc = "probing"
    /\ gatePass.next > GateSignals
    /\ gatePass' = [gatePass EXCEPT !.pc = "returned", !.result = FALSE]
    /\ UNCHANGED exceptGate

GateNext == ProbeSignal \/ GateReturnsFalse

GateSpec == GateInit /\ [][GateNext]_vars

(* ------------------------------ the system ---------------------------- *)

Step ==
    \/ LoginCheck
    \/ LoginFill
    \/ LoginWaitIter
    \/ TPStart
    \/ AccessReadyIter
    \/ TPCheck
    \/ TPFormIter
    \/ TPFillSubmit
    \/ TPConfirmIter
    \/ AccStart
    \/ AccCheck
    \/ AccSave
    \/ Teardown

Remote ==
    \/ LoginCompletes
    \/ InterstitialRedirects
    \/ PublisherShown

Invoke ==
    \/ \E kind \in {"ensure", "check"}, dry \in BOOLEAN : StartRun(kind, dry)
    \/ applyTrustedPublisherViaToken

Next == Invoke \/ Step \/ Remote

Spec == Init /\ [][Next]_vars

\* the event loop resumes an awaiting invocation when its timer or probe completes
FairSpec == Spec /\ WF_vars(Step)

SeqSpec == SeqInit /\ [][Next]_vars

TypeOK ==
    /\ cfg \in Configs
    /\ url \in Urls
    /\ authed \in BOOLEAN /\ tpStored \in BOOLEAN /\ pageTP \in BOOLEAN
    /\ accStored \in {"disallow-tokens", "allow-bypass-token"}
    /\ elapsed \in 0 .. TimeoutTicks
    /\ sinceNav \in 0 .. (NavIntervalTicks + 1)
    /\ runs \in 0 .. MaxRuns

(* ------------------------------ properties ---------------------------- *)

Desired == accessLabel(cfg.target.publishingAccess)

WetEnsure(r) == r.kind = "ensure" /\ ~r.dryRun

FormSteps == {"tp_form", "tp_fill", "tp_confirm"}

\* C1: trusted-publisher ensure, not a dry run, that found the publisher
\* missing returns `added`; the next such ensure on the same target returns
\* `exists`, never reaches the form and submits nothing.
SecondEnsureFindsPublisher ==
    /\ (WetEnsure(run) /\ hist.sawMissing /\ res.tp # "none") => res.tp = "added"
    /\ (WetEnsure(prev) /\ prev.tp = "added" /\ WetEnsure(run)) =>
          /\ res.tp \in {"none", "exists"}
          /\ pc \notin FormSteps
          /\ hist.tpSubmits = 0

SecondEnsureFound ==
    /\ WetEnsure(prev) /\ prev.tp = "added"
    /\ WetEnsure(run) /\ res.tp = "exists"

\* C2: with publishingAccess skip the access operation returns `skipped`
\* without a navigation, a radio read, a click or a submission, under every
\* configuration and page.
SkipTouchesNothing ==
    cfg.target.publishingAccess = "skip" =>
       /\ pc \notin {"acc_ready", "acc_check", "acc_save"}
       /\ res.acc \in {"none", "skipped"}
       /\ hist.accSubmits = 0
       /\ hist.radioObs = "none"
       /\ (pc = "done" /\ run.kind # "replay") => (res.acc = "skipped" /\ hist.did = {})

SkipReturned ==
    /\ cfg.target.publishingAccess = "skip"
    /\ pc = "done"
    /\ res.acc = "skipped"
    /\ ~run.dryRun

\* C3: a dry run selects no provider, fills nothing, clicks no radio and
\* submits nothing, and reports neither `added` nor `updated`; the invocation
\* after a dry run that reported a setting missing does not find it present.
DryRunLeavesPageAlone ==
    /\ run.dryRun =>
          /\ hist.did \cap {"select", "fill", "setup", "radio", "save"} = {}
          /\ hist.tpSubmits = 0 /\ hist.accSubmits = 0
          /\ pc \notin (FormSteps \cup {"acc_save"})
          /\ res.tp # "added" /\ res.acc # "updated"
    /\ (prev.dryRun /\ prev.tp = "dry-run" /\ WetEnsure(run)) => res.tp # "exists"
    /\ (prev.dryRun /\ prev.acc = "dry-run" /\ WetEnsure(run)) => res.acc # "ok"

MissingAgainAfterDryRun ==
    /\ prev.dryRun /\ prev.tp = "dry-run" /\ prev.acc = "dry-run"
    /\ WetEnsure(run)
    /\ hist.sawMissing /\ hist.tpSubmits = 1
    /\ hist.radioObs = "unchecked" /\ hist.accSubmits = 1

\* C4: `added` is returned only after the form was submitted and the presence
\* check held before the confirmation timeout; a confirmation that ran out of
\* time ends the operation in an error, with no result.
AddedOnlyConfirmed ==
    /\ res.tp = "added" => (hist.confirmed /\ hist.tpSubmits >= 1)
    /\ res.err = "confirm-failed" =>
          (pc = "failed" /\ res.tp = "none" /\ ~hist.confirmed /\ hist.tpSubmits >= 1)

AddedAfterConfirmation == res.tp = "added" /\ hist.confirmed /\ pc = "acc_start"

\* C5: `updated` is reported only after the desired radio has been read as checked.
UpdatedOnlyObserved == res.acc = "updated" => hist.radioObs = "checked"

Attended == cfg.loginMode = "browser" /\ ~cfg.headless

\* C7: the invocation waits on a login page or a challenge gate for the
\* operator only in login mode browser with a visible window; in every other
\* configuration a login redirect, a challenge gate or missing credentials
\* fail it at once.
ManualWaitOnlyAttended ==
    /\ pc = "manual_wait" => Attended
    /\ (pc \in {"tp_ready", "acc_ready", "tp_form"} /\ obs \in {"login", "gate"}) =>
          Attended
    /\ (~Attended /\ obs \in {"login", "gate"} /\ pc # "login_wait") =>
          (pc = "failed" /\ res.err \in {"not-logged-in", "2fa-required"})
    /\ (~Attended /\ cfg.creds = "none" /\ obs \in {"logged-out", "no-credentials"}) =>
          (pc = "failed" /\ res.err \in {"missing-credentials", "manual-login-headless"})

FailsFastUnattended ==
    /\ cfg.loginMode = "browser" /\ cfg.headless
    /\ pc = "failed" /\ obs = "gate" /\ res.err = "2fa-required"
    /\ elapsed = 0

InLoop ==
    pc \in {"login_wait", "manual_wait", "tp_ready", "acc_ready", "tp_form", "tp_confirm"}

\* C8: every wait loop is left, by its success or by an error, whatever the
\* remote page does.
WaitsEnd == InLoop ~> ~InLoop

WaitTimedOut == pc = "failed" /\ obs = "timeout" /\ elapsed = cfg.timeoutMs

TimeoutErrors == {"login-timeout", "access-timeout", "form-timeout", "confirm-failed"}

RenavigationsRateLimited ==
    /\ hist.loopNavs >= 2 => hist.gapAtNav > NavIntervalTicks
    /\ hist.spin <= 1

RenavigatedTwice == hist.loopNavs >= 2 /\ pc \in {"tp_ready", "acc_ready"}

NothingRetried ==
    /\ hist.tpSubmits <= 1 /\ hist.accSubmits <= 1 /\ hist.requests <= 1
    /\ res.err = "confirm-failed" => (pc = "failed" /\ hist.tpSubmits = 1)
    /\ res.err = "token-apply-failed" => (pc = "failed" /\ hist.requests = 1)

ConfirmFailedOnce ==
    /\ res.err = "confirm-failed" /\ pc = "failed"
    /\ hist.tpSubmits = 1 /\ tpStored

\* C13: at every point of the credential chain each field holds the value
\* returned by the earliest provider that returned a non-empty value for it,
\* and is empty when no provider has; so a field once set is never changed.
EarliestProviderWins ==
    \A f \in Fields :
       LET S == {s \in chain.suppliers : s.field = f} IN
       IF S = {}
       THEN chain.current[f] = Empty
       ELSE chain.current[f] = (CHOOSE s \in S : \A t \in S : s.i <= t.i).value

ResolvedFromThreeProviders ==
    /\ chain.status = "resolved"
    /\ chain.current["username"] = Val("direct", "username")
    /\ chain.current["password"] = Val("1password", "password")
    /\ chain.current["otp"] = Val("keepassxc", "otp")
    /\ "lastpass" \in chain.lookups

\* C14: once a password is held, no later provider reads a password from its store.
LaterProviderNotConsulted == chain.lookups = {}

\* C15: no configured provider catches a failure of its CLI: whenever one
\* fails, credential resolution throws.
CliFailurePropagates == chain.swallowed = {}

\* the documented order on candidates: a ranks strictly above b
RanksAbove(a, b) ==
    LET scoreOf(c) == c.authMatches * 10 + c.httpOnlyCount * 3
                        + (IF c.cookieCount < 50 THEN c.cookieCount ELSE 50)
    IN  \/ scoreOf(a) > scoreOf(b)
        \/ /\ scoreOf(a) = scoreOf(b)
           /\ \/ a.authMatches > b.authMatches
              \/ /\ a.authMatches = b.authMatches
                 /\ \/ a.httpOnlyCount > b.httpOnlyCount
                    \/ /\ a.httpOnlyCount = b.httpOnlyCount
                       /\ a.cookieCount > b.cookieCount

\* the candidates are the profiles that had at least one cookie, and the
\* profile returned for reason "cookies" is one that no candidate ranks above
Selected(k) ==
    /\ detect.candidates[k].profile = detect.profile
    /\ \A j \in 1 .. Len(detect.candidates) :
         ~RanksAbove(detect.candidates[j], detect.candidates[k])

\* C16: among the profiles with at least one stored cookie, the profile selected
\* is the maximum by score = authMatches*10 + httpOnlyCount*3 + min(cookies, 50),
\* then by auth-name matches, then httpOnly count, then raw cookie count
BestCookieProfileSelected ==
    /\ \A k \in 1 .. Len(detect.candidates) : detect.candidates[k].cookieCount >= 1
    /\ (detect.status = "done" /\ detect.reason = "cookies")
         => \E k \in 1 .. Len(detect.candidates) : Selected(k)

\* the second of two candidates is selected over a first holding more than 50 cookies
SecondCandidateSelected ==
    /\ detect.status = "done"
    /\ detect.reason = "cookies"
    /\ Len(detect.candidates) = 2
    /\ detect.candidates[1].cookieCount > 50
    /\ detect.profile = detect.candidates[2].profile

\* the candidate among the two of the example with the given counts
Example(authMatches, httpOnlyCount, cookieCount) ==
    CHOOSE k \in 1 .. 2 :
        /\ detect.candidates[k].authMatches = authMatches
        /\ detect.candidates[k].httpOnlyCount = httpOnlyCount
        /\ detect.candidates[k].cookieCount = cookieCount

\* detection ended with exactly the two candidates of the example
ExampleCandidates ==
    /\ detect.status = "done"
    /\ Len(detect.candidates) = 2
    /\ \E k \in 1 .. 2 :
         /\ detect.candidates[k].authMatches = 2
         /\ detect.candidates[k].httpOnlyCount = 1
         /\ detect.candidates[k].cookieCount = 5
    /\ \E k \in 1 .. 2 :
         /\ detect.candidates[k].authMatches = 0
         /\ detect.candidates[k].httpOnlyCount = 3
         /\ detect.candidates[k].cookieCount = 40

\* C17: candidates {auth 2, httpOnly 1, total 5} and {auth 0, httpOnly 3,
\* total 40} score 28 and 49, and the second, scoring higher, is selected
ExampleSecondSelected ==
    ExampleCandidates =>
        /\ detect.candidates[Example(2, 1, 5)].score = 28
        /\ detect.candidates[Example(0, 3, 40)].score = 49
        /\ detect.reason = "cookies"
        /\ detect.profile = detect.candidates[Example(0, 3, 40)].profile

\* C17 as stated: the scores are 28 and 49 and the first is selected
ExampleFirstSelected ==
    ExampleCandidates =>
        /\ detect.candidates[Example(2, 1, 5)].score = 28
        /\ detect.candidates[Example(0, 3, 40)].score = 49
        /\ detect.profile = detect.candidates[Example(2, 1, 5)].profile

\* the example was detected with the lower-scoring candidate enumerated first
ExampleDetected ==
    /\ ExampleCandidates
    /\ Example(2, 1, 5) = 1
    /\ detect.profile = 2

\* C18: auto-detection ends with a result and never with an error: a cookie
\* candidate is preferred whenever there is one; without one the last-active
\* profile is returned if the record names an enumerated profile; otherwise
\* the result is "no auto-detected profile"
AutoDetectionNeverFails ==
    /\ detect.status \in {"idle", "called", "reading", "fallback", "done"}
    /\ detect.status = "done" =>
         /\ Len(detect.candidates) > 0 =>
              /\ detect.reason = "cookies"
              /\ \E k \in 1 .. Len(detect.candidates) :
                   detect.candidates[k].profile = detect.profile
         /\ (Len(detect.candidates) = 0 /\ detect.lastActive \in 1 .. detect.n) =>
              /\ detect.reason = "last-active"
              /\ detect.profile = detect.lastActive
         /\ (Len(detect.candidates) = 0 /\ detect.lastActive \notin 1 .. detect.n) =>
              /\ detect.reason = "none"
              /\ detect.profile = NoProfile

\* the record named a profile that is not enumerated, and nothing was detected
StaleLastActiveIgnored ==
    /\ detect.status = "done"
    /\ detect.n > 0
    /\ detect.lastActive > detect.n
    /\ detect.reason = "none"

\* mapTrustedPublisherFields has ended, by returning or by throwing
Mapped == capture.status \in {"returned", "failed"}

\* C19: a capture in which owner, repo or workflow is claimed by no input
\* fails, and no Template is produced without these three mappings
PartialTemplateNeverProduced ==
    /\ (Mapped /\ \E f \in RequiredFields : capture.from[f] = 0)
         => (capture.status = "failed" /\ ~capture.template.made)
    /\ capture.template.made
         => \A f \in RequiredFields : capture.template.fieldMap[f] # ""
    /\ capture.status = "failed" => capture.missing # {}

\* owner was mapped, repo was not, and the capture failed
FailedWithOwnerOnly ==
    /\ capture.status = "failed"
    /\ capture.map["owner"] # ""
    /\ capture.map["repo"] = ""
    /\ Len(capture.inputs) = MaxInputs

\* the position of a logical field in the order the fields are tried
FieldPos(f) == CHOOSE k \in 1 .. Len(LogicalFields) : LogicalFields[k] = f

\* input j went to a field tried before f
TakenByEarlierField(j, f) ==
    \E g \in DOMAIN capture.from : capture.from[g] = j /\ FieldPos(g) < FieldPos(f)

\* C20: each input goes to at most one logical field, the first field in the
\* order owner, repo, workflow, environment, maintainer, publisher that is
\* unmapped and whose pattern matches the input's text; a field is therefore
\* mapped to the first input, in form order, that matches its pattern and did
\* not go to a field tried earlier
FirstUnclaimedMatchWins ==
    Mapped =>
        \A f \in DOMAIN capture.from :
            /\ capture.from[f] # 0 =>
                 /\ Matches(f, capture.inputs[capture.from[f]].haystack)
                 /\ capture.map[f] = capture.inputs[capture.from[f]].name
                 /\ \A g \in DOMAIN capture.from \ {f} : capture.from[g] # capture.from[f]
            /\ capture.from[f] = 0 => capture.map[f] = ""
            /\ \A j \in 1 .. Len(capture.inputs) :
                 (/\ Matches(f, capture.inputs[j].haystack)
                  /\ (capture.from[f] = 0 \/ j < capture.from[f]))
                     => TakenByEarlierField(j, f)

\* C20 as stated: every field is mapped to the first input matching its pattern
FirstMatchWins ==
    Mapped =>
        \A f \in DOMAIN capture.from :
            /\ \A j \in 1 .. Len(capture.inputs) :
                 (/\ Matches(f, capture.inputs[j].haystack)
                  /\ \A m \in 1 .. (j - 1) : ~Matches(f, capture.inputs[m].haystack))
                     => capture.from[f] = j
            /\ \A g \in DOMAIN capture.from \ {f} :
                 capture.from[f] # 0 => capture.from[g] # capture.from[f]

\* the first input matched owner and repo, went to owner, and repo went to the second
RepoFromSecondMatch ==
    /\ capture.status = "returned"
    /\ Matches("repo", capture.inputs[1].haystack)
    /\ capture.from["owner"] = 1
    /\ capture.from["repo"] = 2

\* input k was mapped to a logical field
InputMapped(k) == \E f \in DOMAIN capture.from : capture.from[f] = k

\* the name of input k is the name some logical field is mapped to
NameMapped(k) == \E f \in DOMAIN capture.map : capture.map[f] = capture.inputs[k].name

\* input k is one the template keeps as a static field
KeptStatic(k) ==
    /\ ~NameMapped(k)
    /\ capture.inputs[k].value # ""
    /\ capture.inputs[k].type # "checkbox"

\* C21: in a produced Template the static fields hold, under its name, the
\* value of every input that has a non-empty value, is not a checkbox and
\* whose name is not mapped to a logical field (of several such inputs with
\* one name, the last); no mapped name is among the static fields
StaticFieldsPreserved ==
    capture.template.made =>
        /\ \A k \in 1 .. Len(capture.inputs) :
             (/\ KeptStatic(k)
              /\ \A j \in (k + 1) .. Len(capture.inputs) :
                   ~(capture.inputs[j].name = capture.inputs[k].name /\ KeptStatic(j)))
                 => capture.template.staticFields[capture.inputs[k].name]
                      = capture.inputs[k].value
        /\ \A n \in InputNames :
             capture.template.staticFields[n] # ""
                 => \E k \in 1 .. Len(capture.inputs) :
                       capture.inputs[k].name = n /\ KeptStatic(k)
        /\ \A f \in DOMAIN capture.map :
             capture.map[f] # "" => capture.template.staticFields[capture.map[f]] = ""

\* C21 as stated: every unmapped input with a non-empty value is a static
\* field with that value, and no mapped input is a static field
UnmappedValuedPreserved ==
    capture.template.made =>
        \A k \in 1 .. Len(capture.inputs) :
            /\ (~InputMapped(k) /\ capture.inputs[k].value # "")
                 => capture.template.staticFields[capture.inputs[k].name]
                      = capture.inputs[k].value
            /\ InputMapped(k)
                 => capture.template.staticFields[capture.inputs[k].name] = ""

\* a Template was produced that keeps the hidden token of the form
HiddenTokenKept ==
    /\ capture.template.made
    /\ capture.template.staticFields["csrftoken"] = "w"

\* C22: a template replay succeeds exactly when the response status is in
\* 200 .. 399; otherwise it fails with an error carrying the response status
\* and the first 200 characters of the response body
ReplaySucceedsByStatus ==
    (run.kind = "replay" /\ hist.requests = 1) =>
        /\ pc \in {"done", "failed"}
        /\ pc = "done" <=> hist.response.status \in 200 .. 399
        /\ pc = "failed" =>
             /\ res.err = "token-apply-failed"
             /\ hist.message.status = hist.response.status
             /\ hist.message.snippet =
                  (IF hist.response.body < 200 THEN hist.response.body ELSE 200)

\* a replay was refused with a body longer than the snippet
ReplayRefusedLongBody ==
    /\ run.kind = "replay"
    /\ pc = "failed"
    /\ hist.response.status = 400
    /\ hist.response.body > 200
    /\ hist.message.snippet = 200

\* every writeConfig call has ended
AllWritten == \A w \in 1 .. MaxWriters : conf.writers[w].pc \in {"idle", "done"}

\* the writers that were called
Callers == {w \in 1 .. MaxWriters : conf.writers[w].pc # "idle"}

\* C23: writeConfig reads, merges and overwrites without a lock: a single
\* writer leaves the keys it does not name as they were and sets the keys it
\* names; so do writers that do not overlap, the last one winning a shared key
\* (an interleaving of two writers that loses an update is LostUpdate)
ConfigMergedOnWrite ==
    (AllWritten /\ ~conf.overlapped) =>
        \A k \in ConfigKeys :
            IF \E w \in Callers : conf.writers[w].update[k] # ""
            THEN \E w \in Callers : /\ conf.writers[w].update[k] # ""
                                    /\ conf.file.content[k] = conf.writers[w].update[k]
            ELSE conf.file.content[k] = conf.initial[k]

\* two writers updated different keys, and the first writer's update is not
\* in the final file
LostUpdate ==
    /\ AllWritten
    /\ Callers = {1, 2}
    /\ conf.file.whole
    /\ \A k \in ConfigKeys : conf.writers[1].update[k] = "" \/ conf.writers[2].update[k] = ""
    /\ \E k \in ConfigKeys : /\ conf.writers[1].update[k] # ""
                             /\ conf.file.content[k] # conf.writers[1].update[k]
    /\ \A k \in ConfigKeys : conf.writers[2].update[k] # ""
                                => conf.file.content[k] = conf.writers[2].update[k]

\* C24: a session that was created is closed when the command has ended, and
\* with a storage path its state was saved before
SessionClosedAtEnd ==
    (cli.pc = "exited" /\ cli.launches > 0) =>
        /\ cli.session = "closed"
        /\ cli.o.storage => cli.saved

\* C25: with owner, repo or workflow missing the command fails before a
\* browser is launched and before any step on the page
MissingTargetFailsFirst ==
    (cli.pc # "idle" /\ cli.o.missing # {}) =>
        /\ cli.pc \in {"target", "exited"}
        /\ cli.launches = 0
        /\ cli.session = "none"
        /\ cli.calls = <<>>
        /\ ~cli.mutated
        /\ cli.pc = "exited" => (cli.exitCode = 1 /\ cli.threw = "missing-fields")

\* the command ended for a missing workflow without a browser
FailedForMissingWorkflow ==
    /\ cli.pc = "exited"
    /\ cli.o.missing = {"workflow"}
    /\ cli.threw = "missing-fields"
    /\ cli.launches = 0

\* the target as the site holds it needs no change
FullySatisfied ==
    /\ cli.world.tpPresent
    /\ cli.world.access \in {"skip", "matches"}
    /\ cli.world.registryTp # "no"

\* C26: check ends with exit code 0 when the target is fully satisfied, with 2
\* on a mismatch, and with 1 only on a hard error
CheckExitCodes ==
    (cli.pc = "exited" /\ cli.o.cmd = "check") =>
        /\ cli.exitCode = 1 <=> cli.threw # "none"
        /\ cli.threw = "none" => (cli.exitCode = 0 <=> FullySatisfied)
        /\ cli.threw = "none" => (cli.exitCode = 2 <=> ~FullySatisfied)

\* C27: check passes dryRun to both steps whatever the operator passed, and
\* changes nothing on the site
CheckIsReadOnly ==
    cli.o.cmd = "check" =>
        /\ \A k \in 1 .. Len(cli.calls) : cli.calls[k].dryRun
        /\ ~cli.mutated
        /\ cli.status \in {"none", "exists", "dry-run"}
        /\ cli.accessStatus \in {"none", "ok", "dry-run", "skipped"}

\* a check found the publisher missing and the access different, and left both
CheckFoundBothPending ==
    /\ cli.pc = "exited"
    /\ cli.o.cmd = "check"
    /\ Len(cli.calls) = 2
    /\ cli.status = "dry-run"
    /\ cli.accessStatus = "dry-run"
    /\ ~cli.world.tpPresent

\* the operator did not confirm: declined, or no terminal and no --yes
NotConfirmed == ~cli.o.yes /\ (~cli.o.tty \/ cli.o.answer # "y")

\* C28: an ensure that is not confirmed ends with exit code 1 without a
\* browser and without any change
UnconfirmedEnsureStops ==
    (cli.o.cmd = "ensure" /\ cli.pc # "idle" /\ NotConfirmed) =>
        /\ cli.pc \in {"target", "confirm", "exited"}
        /\ cli.launches = 0
        /\ cli.calls = <<>>
        /\ ~cli.mutated
        /\ cli.pc = "exited" => cli.exitCode = 1

\* the operator answered no at the prompt and the command ended
DeclinedAtPrompt ==
    /\ cli.pc = "exited"
    /\ cli.o.cmd = "ensure"
    /\ cli.o.missing = {}
    /\ ~cli.o.yes /\ cli.o.tty /\ cli.o.answer = "n"
    /\ cli.exitCode = 1
    /\ cli.threw = "none"

\* C29: in ensure the publishing-access step is called, and has returned,
\* before the trusted-publisher step is called
AccessBeforePublisher ==
    cli.o.cmd = "ensure" =>
        \A k \in 1 .. Len(cli.calls) :
            cli.calls[k].step = "publisher"
                => \E j \in 1 .. (k - 1) : cli.calls[j].step = "access"

\* resolveCredentials as runCheck and runEnsure call it in login mode browser:
\* not interactive, missing credentials allowed
BrowserLoginMode == ~chain.o.interactive /\ chain.o.allowMissing

\* C30: in login mode browser no credential provider supplies anything or
\* runs its CLI, so that no credentials are resolved and the run waits for
\* the operator
BrowserModeSkipsProviders ==
    (chain.status # "idle" /\ BrowserLoginMode) =>
        /\ chain.suppliers = {}
        /\ chain.status \notin {"resolved", "cli-failed"}

(* ------------------------------------------------------------------------
   The workflow of a target
   ------------------------------------------------------------------------ *)

\* the workflow of the target that was returned
TargetWorkflow == norm.workflow

\* C31: for every workflow input the workflow of the resolved target is a bare
\* filename: it is not empty and holds no path separator
WorkflowIsBareFilename ==
    norm.pc = "returned" =>
        /\ TargetWorkflow # <<>>
        /\ ~includesSlash(TargetWorkflow)

\* the workflows that resolveTarget and normalizeWorkflowName return hold no
\* separator, and .github/workflows/release.yml gives release.yml
WorkflowHasNoSeparator ==
    /\ norm.pc = "returned" => ~includesSlash(TargetWorkflow)
    /\ (norm.pc = "returned"
          /\ norm.input = <<".github", "/", "workflows", "/", "release.yml">>)
        => TargetWorkflow = <<"release.yml">>

\* resolveTarget returned a target whose workflow is the empty string
EmptyWorkflowResolved ==
    norm.pc = "returned" /\ norm.via = "resolveTarget" /\ TargetWorkflow = <<>>

(* ------------------------------------------------------------------------
   Publishing access of a managed target
   ------------------------------------------------------------------------ *)

\* C32: for a target whose policy is not skip, ensurePublishingAccess never
\* reports skipped, also when the policy control cannot be located on the page
ManagedAccessNeverSkipped ==
    cfg.target.publishingAccess # "skip" => res.acc # "skipped"

\* on a page that offers the policy control, the access step of a managed
\* target ends in ok, dry-run, updated or an error
ManagedAccessOutcomes ==
    (cfg.target.publishingAccess # "skip" /\ res.acc # "none" /\ obs # "no-radio") =>
        res.acc \in {"ok", "dry-run", "updated"}

\* the policy control was not found and the step of a managed target returned
SkippedWithoutRadio ==
    /\ cfg.target.publishingAccess # "skip"
    /\ pc = "done" /\ obs = "no-radio" /\ res.acc = "skipped"

(* ------------------------------------------------------------------------
   Mutations need a ready session
   ------------------------------------------------------------------------ *)

\* the page actions of the two ensure operations that change the page or the
\* registry: provider selection, field fill, submission, radio click, save
MutatingActions == {"select", "fill", "setup", "radio", "save"}

\* C33: an ensure operation performs a mutating page action only after it has
\* observed the access page ready: not on the login address and with no
\* challenge gate visible
MutationOnlyWhenReady ==
    hist.did \cap MutatingActions # {} => hist.ready = "clear"

\* the publisher was added and, in the same invocation, the policy radio was
\* clicked, each after a ready observation
BothOperationsMutatedReady ==
    /\ res.tp = "added"
    /\ "radio" \in hist.did
    /\ hist.ready = "clear"

(* ------------------------------------------------------------------------
   A failure ends the reconciliation
   ------------------------------------------------------------------------ *)

\* C34: once login or a step has failed, no further step is called and the
\* site is not changed in that invocation; only saveStorageState and
\* closeBrowser follow
FailedIsTerminal ==
    [][cli.failed # "none" =>
          /\ cli'.calls = cli.calls
          /\ cli'.mutated = cli.mutated
          /\ cli'.world = cli.world
          /\ cli'.others = cli.others
          /\ cli'.pc \in {"close", "exited"}]_vars

\* the wizard failed on the publisher of its second target in the ensure
\* stage, after a change to the site, and ended with the session closed
WizardFailedInEnsure ==
    /\ cli.pc = "exited"
    /\ cli.o.cmd = "install"
    /\ cli.stage = "ensure" /\ cli.target = 2
    /\ cli.failed = "publisher"
    /\ cli.mutated
    /\ cli.session = "closed"

(* ------------------------------------------------------------------------
   check of a target with unmanaged access
   ------------------------------------------------------------------------ *)

\* C35: when the target's policy is skip and the trusted publisher already
\* exists, check ends with exit code 0
SkipCheckExitsZero ==
    (/\ cli.pc = "exited" /\ cli.o.cmd = "check" /\ cli.threw = "none"
     /\ cli.world.access = "skip" /\ cli.status = "exists") =>
        cli.exitCode = 0

\* a check of such a target, with metadata that marks trusted publishing,
\* ended with exit code 2
SkipCheckExitedTwo ==
    /\ cli.pc = "exited" /\ cli.o.cmd = "check" /\ cli.threw = "none"
    /\ cli.world.access = "skip" /\ cli.status = "exists"
    /\ cli.world.registryTp = "yes"
    /\ cli.accessStatus = "skipped"
    /\ cli.exitCode = 2

(* ------------------------------------------------------------------------
   Teardown after a failure
   ------------------------------------------------------------------------ *)

\* C36: if anything fails between the launch of the browser and the end of the
\* invocation (cookie import, login, either step, persisting the storage
\* state), the session is closed before the invocation ends
FailureStillClosesSession ==
    (cli.pc = "exited" /\ cli.launches > 0 /\ (cli.threw # "none" \/ cli.failed # "none")) =>
        cli.session = "closed"

\* a failure of login or of a step is followed by the teardown unless
\* persisting the storage state fails after it
StepFailureClosesSession ==
    (cli.pc = "exited" /\ cli.failed # "none" /\ cli.threw # "storage") =>
        cli.session = "closed"

\* the cookie import failed and the command ended with the session open
ExitedOpenAfterCookies ==
    cli.pc = "exited" /\ cli.threw = "cookies" /\ cli.session = "open"

\* persisting the storage state failed after a failed step and the command
\* ended with the session open
ExitedOpenAfterStorage ==
    /\ cli.pc = "exited" /\ cli.threw = "storage" /\ cli.failed = "access"
    /\ cli.session = "open"

(* ------------------------------------------------------------------------
   A browser that was attached to
   ------------------------------------------------------------------------ *)

\* C37: ending a session that is attached to a running browser through a
\* remote-debug endpoint never closes that browser; a browser is closed only
\* if the session launched it
AttachedBrowserKeptRunning ==
    /\ cli.o.mode = "cdp" => cli.browser = "running"
    /\ cli.browser = "closed" => cli.owns

\* the session of an attached browser was closed and the browser runs on
AttachedSessionEnded ==
    /\ cli.pc = "exited"
    /\ cli.o.mode = "cdp"
    /\ cli.session = "closed" /\ cli.handle /\ ~cli.owns
    /\ cli.browser = "running"

(* ------------------------------------------------------------------------
   Where the bearer token goes
   ------------------------------------------------------------------------ *)

\* C38: for every stored template action, the request of the replay that
\* carries the Authorization header goes to an address on www.npmjs.com
TokenSentToConsoleOnly ==
    hist.requests > 0 => HostOf(hist.request) = "www.npmjs.com"

\* the token of a replay leaves the console only for the host that an
\* absolute action names; every other action is resolved on the console
TokenSentToActionHost ==
    (hist.requests > 0 /\ HostOf(hist.request) # "www.npmjs.com") =>
        hist.request \in {action \in TemplateActions : IsAbsolute(action)}

\* a replay sent the token to another host
TokenSentElsewhere ==
    hist.requests > 0 /\ HostOf(hist.request) = "other.example"

(* ------------------------------------------------------------------------
   Token creation
   ------------------------------------------------------------------------ *)

\* C39: token creation without a supplied code sends one create request; only
\* when that is answered 401 with both an auth and a done address does it poll
\* the done address, each poll issued within the timeout, and then send
\* exactly one more create request, carrying the code obtained.  At most two
\* create requests are sent, and the poll fails when no code came in time
TokenCreateProtocol ==
    (token.pc # "idle" /\ ~token.o.otp) =>
        /\ Len(token.creates) <= 2
        /\ token.pc # "called" => (Len(token.creates) >= 1 /\ token.creates[1].otp = "none")
        /\ (token.polls > 0 \/ token.pc = "polling") =>
              (token.first.status = 401 /\ token.first.challenge = "both")
        /\ token.polls > 0 => token.pollAt < token.o.timeout
        /\ Len(token.creates) = 2 =>
              (token.code /\ token.polls > 0 /\ token.creates[2].otp = "polled")
        /\ (token.code /\ token.pc \in {"returned", "threw"}) => Len(token.creates) = 2
        /\ (token.pc \in {"returned", "threw"} /\ token.first.status = 401
              /\ token.first.challenge = "both" /\ ~token.code) =>
              /\ token.result \in {"poll-timeout", "fetch-failed"}
              /\ Len(token.creates) = 1
              /\ token.result = "poll-timeout" => token.elapsed >= token.o.timeout

\* a token was created by the second request, after two polls of the done address
TokenAfterTwoPolls ==
    /\ token.pc = "returned" /\ token.result = "token"
    /\ ~token.o.otp
    /\ token.polls = 2
    /\ Len(token.creates) = 2

(* ------------------------------------------------------------------------
   Probes of the challenge gate
   ------------------------------------------------------------------------ *)

\* C40: every visibility probe of a detection pass is issued with a timeout of 0
GateProbesNoWait ==
    \A k \in 1 .. Len(gatePass.probes) : gatePass.probes[k] = 0

\* a pass probes each signal at most once, in order, stops at the first one
\* that shows, and reports the gate exactly when a signal shows
GatePassProbesOnce ==
    /\ Len(gatePass.probes) <= GateSignals
    /\ gatePass.pc = "returned" =>
          /\ gatePass.result <=> gatePass.visible # {}
          /\ gatePass.result => Len(gatePass.probes) = gatePass.next /\ gatePass.next \in gatePass.visible
          /\ ~gatePass.result => Len(gatePass.probes) = GateSignals

\* a pass on a page without any signal returned false after seven probes with
\* a timeout of 800
FullPassWithTimeouts ==
    /\ gatePass.pc = "returned" /\ ~gatePass.result
    /\ Len(gatePass.probes) = GateSignals
    /\ \A k \in 1 .. Len(gatePass.probes) : gatePass.probes[k] = GateProbeTimeout

====
